---------------------------- MODULE Spec2Model ----------------------------
(***************************************************************************)
(* A model of the calendar-to-notes pipeline of obsidian-claude-plugins:   *)
(*   skills/daily-planner/process_calendar.py           (the "skills"      *)
(*       variant: should_skip_event, match_attendee_to_person,             *)
(*       create_meeting_note, update_daily_note, main)                     *)
(*   obsidian-productivity/skills/daily-planner/process_calendar.py        *)
(*       (the ObsidianDailyPlanner class: _match_attendee,                 *)
(*       _create_meeting_note)                                             *)
(*                                                                         *)
(* A document is the sequence of its lines (the text split at "\n"): a     *)
(* document that ends with a newline has an empty last line.  A line is a  *)
(* record [k, n]:                                                          *)
(*   k = "blank"   a line whose strip() is empty                           *)
(*   k = "text"    user text n (not blank, not link-shaped, no leading #)  *)
(*   k = "hash"    a line that begins with '#' (any other header), text n  *)
(*   k = "header"  the line holding the meetings header                    *)
(*   k = "link"    the line "- [[<stem n>]]"                               *)
(* A start time is a number: 0 is the empty string, and t < u is the       *)
(* string order of the timestamps.  Stems are numbered in the string order *)
(* of their link lines.                                                    *)
(***************************************************************************)
EXTENDS Integers, Sequences, FiniteSets, TLC

(* ------------------------------ bounds -------------------------------- *)
\* The most lines a user's meetings section holds at the start, and the most
\* (start time, note) pairs one call is given.
MaxBody  == 3
MaxPairs == 2
\* The most attendees of an event given to the filter.
MaxAttendees == 2
\* The most events of a batch given to main().
MaxBatch == 2
\* The most person files of the identity store.
MaxPeople == 2
\* The most attachments of an event.
MaxAttachments == 2
\* The most tokens of a date format.
MaxTokens == 2
\* The most characters of a meeting title.
MaxTitle == 3
\* The most calls of enrich_person_file on one person file.
MaxCalls == 2

\* Two notes and two start times ("" and one timestamp): what it takes to
\* order, tie and repeat a pair of links.
Stems == {1, 2}
Times == {0, 1}

(* ------------------------------ lines --------------------------------- *)
Blank     == [k |-> "blank",  n |-> 0]
Header    == [k |-> "header", n |-> 0]
Text(i)   == [k |-> "text",   n |-> i]
Hash(i)   == [k |-> "hash",   n |-> i]
Link(s)   == [k |-> "link",   n |-> s]

\* line.strip() is empty
IsBlank(line) == line.k = "blank"
\* line.strip().startswith('- [[')
IsLinkItem(line) == line.k = "link"
\* link.strip()[4:-2]
StemOf(line) == line.n
\* the line begins with '#', so "\n#" matches in front of it
BeginsWithHash(line) == line.k \in {"hash", "header"}

(* ------------------------------ helpers ------------------------------- *)
Min(S) == CHOOSE x \in S : \A y \in S : x <= y

RECURSIVE SeqsUpTo(_, _)
SeqsUpTo(S, n) ==
    IF n = 0 THEN {<<>>}
    ELSE LET shorter == SeqsUpTo(S, n - 1)
         IN  shorter \cup {Append(q, x) : q \in {r \in shorter : Len(r) = n - 1}, x \in S}

Range(q) == {q[i] : i \in 1..Len(q)}

(* ------------------------------ the vault ----------------------------- *)
\* A note file of MEETINGS/: NoFile, or its content [start, rev]: start is
\* the value of its "start:" line (0: it has none), rev stands for the rest
\* of the text.
NoFile == [start |-> 0, rev |-> 0]

\* get_meeting_start_time after rglob: "" for a missing file or a file
\* without a start line.
get_meeting_start_time(v, stem) ==
    IF v[stem] = NoFile THEN 0 ELSE v[stem].start

(* ------------------------- update_daily_note -------------------------- *)
\* sorted(meeting_files, key=lambda x: x[0]): a stable sort on the pair's
\* own start time.
RECURSIVE InsertByTime(_, _)
InsertByTime(sorted, p) ==
    IF sorted = <<>> THEN <<p>>
    ELSE IF p[1] < Head(sorted)[1] THEN <<p>> \o sorted
    ELSE <<Head(sorted)>> \o InsertByTime(Tail(sorted), p)

RECURSIVE SortedByPairTime(_)
SortedByPairTime(pairs) ==
    IF pairs = <<>> THEN <<>>
    ELSE InsertByTime(SortedByPairTime(SubSeq(pairs, 1, Len(pairs) - 1)),
                      pairs[Len(pairs)])

\* new_meeting_links: one link per pair in sorted order, a link already in
\* the list is not added again.
RECURSIVE DedupLinks(_, _)
DedupLinks(sorted, acc) ==
    IF sorted = <<>> THEN acc
    ELSE LET link == Link(Head(sorted)[2])
         IN  DedupLinks(Tail(sorted),
                        IF link \in Range(acc) THEN acc ELSE Append(acc, link))

new_meeting_links(pairs) == DedupLinks(SortedByPairTime(pairs), <<>>)

\* The index of the line holding the first occurrence of the header, 0 if
\* the header is not in the document.
start_idx(content) ==
    IF \E i \in 1..Len(content) : content[i].k = "header"
    THEN Min({i \in 1..Len(content) : content[i].k = "header"})
    ELSE 0

\* content.find('\n#', start_idx + 1): the index of the next line that
\* begins with '#', or one past the last line.
end_idx(content, h) ==
    IF \E j \in (h + 1)..Len(content) : BeginsWithHash(content[j])
    THEN Min({j \in (h + 1)..Len(content) : BeginsWithHash(content[j])})
    ELSE Len(content) + 1

ScanInit ==
    [in_list |-> FALSE, list_ended |-> FALSE, existing_links |-> {},
     before_list |-> <<>>, after_list |-> <<>>]

\* A scan that takes every link-shaped line as a list item, also after the
\* list has ended.
ScanStep_LinksAlways(st, line) ==
    IF IsLinkItem(line)
        THEN [st EXCEPT !.in_list = TRUE,
                        !.existing_links = @ \cup {line}]
    ELSE IF st.in_list /\ ~IsBlank(line)
        THEN [st EXCEPT !.list_ended = TRUE,
                        !.after_list = Append(@, line)]
    ELSE IF st.list_ended
        THEN [st EXCEPT !.after_list = Append(@, line)]
    ELSE IF ~st.in_list
        THEN [st EXCEPT !.before_list = Append(@, line)]
    ELSE st

\* One iteration of the loop over lines[1:].
ScanStep(st, line) ==
    IF IsLinkItem(line) /\ ~st.list_ended
        THEN [st EXCEPT !.in_list = TRUE,
                        !.existing_links = @ \cup {line}]
    ELSE IF st.in_list /\ ~IsBlank(line) /\ ~IsLinkItem(line)
        THEN [st EXCEPT !.list_ended = TRUE,
                        !.after_list = Append(@, line)]
    ELSE IF st.list_ended
        THEN [st EXCEPT !.after_list = Append(@, line)]
    ELSE IF ~st.in_list /\ ~IsBlank(line)
        THEN [st EXCEPT !.before_list = Append(@, line)]
    ELSE IF ~st.in_list
        THEN [st EXCEPT !.before_list = Append(@, line)]
    ELSE st

RECURSIVE ScanLines(_, _)
ScanLines(lines, st) ==
    IF lines = <<>> THEN st
    ELSE ScanLines(Tail(lines), ScanStep(st, Head(lines)))

\* all_meeting_stems: the stems of the existing and of the new links.
all_meeting_stems(existing_links, new_links) ==
    {StemOf(l) : l \in existing_links} \cup {StemOf(l) : l \in Range(new_links)}

\* meeting_times: (start time read from the note file, link) per stem.
meeting_times(v, stems) ==
    {<<get_meeting_start_time(v, s), Link(s)>> : s \in stems}

TupleLess(a, b) ==
    \/ a[1] < b[1]
    \/ a[1] = b[1] /\ StemOf(a[2]) < StemOf(b[2])

\* [link for _, link in sorted(meeting_times)]
RECURSIVE all_links(_)
all_links(mt) ==
    IF mt = {} THEN <<>>
    ELSE LET least == CHOOSE a \in mt : \A b \in mt \ {a} : TupleLess(a, b)
         IN  <<least[2]>> \o all_links(mt \ {least})

\* The rebuilt section: header, before zone (or one blank line), the merged
\* links, after zone.
new_section_lines(header, st, links) ==
    <<header>>
    \o (IF st.before_list # <<>> THEN st.before_list ELSE <<Blank>>)
    \o links
    \o st.after_list

\* content.rstrip(): trailing blank lines go; the empty text is one empty
\* line.
RECURSIVE Rstrip(_)
Rstrip(content) ==
    IF content = <<>> THEN <<Blank>>
    ELSE IF IsBlank(content[Len(content)])
         THEN Rstrip(SubSeq(content, 1, Len(content) - 1))
         ELSE content

\* content.rstrip() + '\n\n' + '# Meetings\n\n' + '\n'.join(links) + '\n'
AppendSection(content, links) ==
    Rstrip(content) \o <<Blank, Header, Blank>>
    \o (IF links = <<>> THEN <<Blank>> ELSE links)
    \o <<Blank>>

\* A merge that appends the new links to the existing ones without looking
\* whether a note is already linked.
ReplaceSection_NoDedup(content, v, links) ==
    LET h  == start_idx(content)
        e  == end_idx(content, h)
        st == ScanLines(SubSeq(content, h + 1, e - 1), ScanInit)
        merged == all_links(meeting_times(v,
                      all_meeting_stems(st.existing_links, <<>>))) \o links
    IN  SubSeq(content, 1, h - 1)
        \o new_section_lines(content[h], st, merged)
        \o SubSeq(content, e, Len(content))

\* A merge that takes the section to run to the end of the document.
ReplaceSection_DropsTail(content, v, links) ==
    LET h  == start_idx(content)
        e  == end_idx(content, h)
        st == ScanLines(SubSeq(content, h + 1, e - 1), ScanInit)
        merged == all_links(meeting_times(v,
                      all_meeting_stems(st.existing_links, links)))
    IN  SubSeq(content, 1, h - 1)
        \o new_section_lines(content[h], st, merged)

\* content[:start_idx] + new_section + content[end_idx:]
ReplaceSection(content, v, links) ==
    LET h  == start_idx(content)
        e  == end_idx(content, h)
        st == ScanLines(SubSeq(content, h + 1, e - 1), ScanInit)
        merged == all_links(meeting_times(v,
                      all_meeting_stems(st.existing_links, links)))
    IN  SubSeq(content, 1, h - 1)
        \o new_section_lines(content[h], st, merged)
        \o SubSeq(content, e, Len(content))

\* The text update_daily_note writes for an existing daily note.
MergedContent(content, v, pairs) ==
    IF start_idx(content) # 0
    THEN ReplaceSection(content, v, new_meeting_links(pairs))
    ELSE AppendSection(content, new_meeting_links(pairs))

(* ------------------------------ events -------------------------------- *)
\* An event record holds the fields the code reads:
\*   eventType                  "workingLocation" or anything else
\*   attendees                  a sequence of [email, self, responseStatus]
\*   guestsCanSeeOtherGuests,
\*   guestsCanInviteOthers      "true", "false" or "absent" (the key is missing)
\*   summary                    a title
\*   start                      [kind, t]: a dateTime t, a date, or nothing
\* An email of "" stands for an attendee without an email.
HardcodedEmail == "jlaska@redhat.com"
Emails == {"", HardcodedEmail, "me@corp.com", "bob@corp.com"}
UserEmails == {HardcodedEmail, "me@corp.com"}
Attendees ==
    [email : Emails, self : BOOLEAN, responseStatus : {"accepted", "declined"}]
Flags == {"true", "false", "absent"}

\* A filter that takes either flag being false for a broadcast event.
should_skip_event_EitherFlag(event, user_email) ==
    IF event.eventType = "workingLocation" THEN TRUE
    ELSE IF \E i \in 1..Len(event.attendees) :
                /\ event.attendees[i].email = user_email
                /\ event.attendees[i].responseStatus = "declined"
         THEN TRUE
    ELSE IF event.attendees = <<>> THEN TRUE
    ELSE IF SelectSeq(event.attendees, LAMBDA a : a.email # user_email) = <<>>
         THEN TRUE
    ELSE IF \/ event.guestsCanSeeOtherGuests = "false"
            \/ event.guestsCanInviteOthers = "false"
         THEN TRUE
    ELSE FALSE

\* should_skip_event(event, user_email): the checks in the order of the code.
should_skip_event(event, user_email) ==
    IF event.eventType = "workingLocation" THEN TRUE
    ELSE IF \E i \in 1..Len(event.attendees) :
                /\ event.attendees[i].email = user_email
                /\ event.attendees[i].responseStatus = "declined"
         THEN TRUE
    ELSE IF event.attendees = <<>> THEN TRUE
    ELSE IF SelectSeq(event.attendees, LAMBDA a : a.email # user_email) = <<>>
         THEN TRUE
    ELSE IF /\ event.guestsCanSeeOtherGuests = "false"
            /\ event.guestsCanInviteOthers = "false"
         THEN TRUE
    ELSE FALSE

(* --------------------------- the note writers -------------------------- *)
\* Titles: 1 is "Plan", 2 is "Sync: Q3", 3 is "Sync/ Q3".  Both sanitizers
\* turn ':' and '/' into ' - ' and collapse the spaces, so titles 2 and 3
\* give the one file name "Sync - Q3"; all events are on the target date, so
\* the sanitized title stands for the stem "<date> - <title>".
Titles == {1, 2, 3}
sanitize_title(title) == IF title = 3 THEN 2 ELSE title
ODP_sanitize_filename(title) == IF title = 3 THEN 2 ELSE title

\* What a writer renders besides the start line (the created timestamp, the
\* resolved attendees, the template): 1 is text that was in the vault
\* before, 2 and 3 are renderings.
Renderings == {2, 3}

\* start.get('dateTime', '')
start_dt(event) == IF event.start.kind = "dateTime" THEN event.start.t ELSE 0

Raised == [kind |-> "raised", start |-> 0, stem |-> 0]
ReturnedNone == [kind |-> "None", start |-> 0, stem |-> 0]
Skipped == [kind |-> "skipped", start |-> 0, stem |-> 0]

\* get_meeting_file_path finds a start date it can parse: the start kinds
\* "none" (no dateTime and no date) and "malformed" make it raise.
has_start_date(event) == event.start.kind \in {"dateTime", "date"}

\* A writer that files an event without a usable start date under its title.
create_meeting_note_NoStartCheck(event, v, rendered) ==
    LET stem == sanitize_title(event.summary)
        ret  == [kind |-> "pair", start |-> start_dt(event), stem |-> stem]
    IN  IF v[stem] # NoFile
        THEN [vault |-> v, ret |-> ret]
        ELSE [vault |-> [v EXCEPT ![stem] =
                           [start |-> start_dt(event), rev |-> rendered]],
              ret |-> ret]

\* The external commands create_meeting_note runs for an event, with an
\* empty PEOPLE directory: 'gog people search' for each attendee that has an
\* email, 'gog drive get' for each attachment that has a file id.  The path
\* is computed first, and nothing is run when that raises.
create_meeting_note_lookups(event) ==
    IF ~has_start_date(event) THEN {}
    ELSE {"gog people search" : a \in {b \in Range(event.attendees) : b.email # ""}}
         \cup {"gog drive get" : a \in {b \in Range(event.attachments) : b.fileId}}

\* A writer that writes the rendered note whether or not the file exists.
create_meeting_note_Overwrites(event, v, rendered) ==
    IF ~has_start_date(event)
    THEN [vault |-> v, ret |-> Raised]
    ELSE LET stem == sanitize_title(event.summary)
         IN  [vault |-> [v EXCEPT ![stem] =
                            [start |-> start_dt(event), rev |-> rendered]],
              ret |-> [kind |-> "pair", start |-> start_dt(event), stem |-> stem]]

\* create_meeting_note(event, vault_root, date_format): the note files after
\* the call and what it returns.  get_meeting_file_path raises for an event
\* without a usable start date.
create_meeting_note(event, v, rendered) ==
    IF ~has_start_date(event)
    THEN [vault |-> v, ret |-> Raised]
    ELSE LET stem == sanitize_title(event.summary)
             ret  == [kind |-> "pair", start |-> start_dt(event), stem |-> stem]
         IN  IF v[stem] # NoFile
             THEN [vault |-> v, ret |-> ret]
             ELSE [vault |-> [v EXCEPT ![stem] =
                                [start |-> start_dt(event), rev |-> rendered]],
                   ret |-> ret]

\* The checks at the head of _create_meeting_note: who "self" is comes from
\* the attendee's self flag.
ODP_not_a_meeting(event) ==
    \/ event.eventType = "workingLocation"
    \/ \E i \in 1..Len(event.attendees) :
          event.attendees[i].self /\ event.attendees[i].responseStatus = "declined"
    \/ event.attendees = <<>>
    \/ SelectSeq(event.attendees, LAMBDA a : ~a.self) = <<>>
    \/ /\ event.guestsCanSeeOtherGuests = "false"
       /\ event.guestsCanInviteOthers = "false"

\* ObsidianDailyPlanner._create_meeting_note(event, date_str)
ODP_create_meeting_note(event, v, rendered) ==
    IF ODP_not_a_meeting(event)
    THEN [vault |-> v, ret |-> ReturnedNone]
    ELSE LET stem == ODP_sanitize_filename(event.summary)
             ret  == [kind |-> "wikilink", start |-> 0, stem |-> stem]
         IN  IF v[stem] # NoFile
             THEN [vault |-> v, ret |-> ret]
             ELSE [vault |-> [v EXCEPT ![stem] =
                                [start |-> start_dt(event), rev |-> rendered]],
                   ret |-> ret]

\* The daily note does not exist.
NoDoc == <<>>

\* The text update_daily_note starts from when the daily note does not
\* exist: the frontmatter, an empty line and the built-in template
\* "# Meetings\n\n".
NewDailyContent ==
    <<Text(10), Text(11), Text(12), Text(13), Text(10), Blank>>
    \o <<Header, Blank, Blank>>

\* The text update_daily_note writes.
WrittenDailyNote(d, v, pairs) ==
    MergedContent(IF d = NoDoc THEN NewDailyContent ELSE d, v, pairs)

(* ------------- ObsidianDailyPlanner: the batch and the daily note ------- *)
\* The days of the start fields given to ObsidianDailyPlanner: day 1 is the
\* day before the target date (an overnight meeting begins there), day 2 is
\* the target date.
Days == {1, 2}
\* The dateTime string of a meeting on a day, as its place in string order:
\* the string (day + 'T00:00:00') of a day is Midnight(day), directly below it.
Midnight(day) == 2 * day
DateTimeOn(day) == 2 * day + 1

\* get_sort_key(event) of process_calendar_events
get_sort_key(event) ==
    CASE event.start.kind = "dateTime" -> event.start.t
      [] event.start.kind = "date" -> Midnight(event.start.day)
      [] OTHER -> 0

\* events.sort(key=get_sort_key): a stable sort.
RECURSIVE InsertByKey(_, _)
InsertByKey(sorted, e) ==
    IF sorted = <<>> THEN <<e>>
    ELSE IF get_sort_key(e) < get_sort_key(Head(sorted)) THEN <<e>> \o sorted
    ELSE <<Head(sorted)>> \o InsertByKey(Tail(sorted), e)

RECURSIVE SortedByKey(_)
SortedByKey(events) ==
    IF events = <<>> THEN <<>>
    ELSE InsertByKey(SortedByKey(SubSeq(events, 1, Len(events) - 1)),
                     events[Len(events)])

\* The loop of process_calendar_events over the sorted events: the vault
\* after it and the (start_time, wikilink) entries it collected.
RECURSIVE ODP_collect(_, _, _, _)
ODP_collect(events, v, entries, rendered) ==
    IF events = <<>> THEN [vault |-> v, entries |-> entries]
    ELSE LET event == Head(events)
             r == ODP_create_meeting_note(event, v, rendered)
         IN  ODP_collect(Tail(events), r.vault,
                         IF r.ret.kind = "wikilink"
                         THEN Append(entries, <<start_dt(event), r.ret.stem>>)
                         ELSE entries,
                         rendered)

\* "- {link}" for each entry, in the order of the entries.
LinksOf(entries) == [i \in 1..Len(entries) |-> Link(entries[i][2])]

\* unique_entries: the first entry of each wikilink.
RECURSIVE ODP_unique_entries(_, _)
ODP_unique_entries(entries, acc) ==
    IF entries = <<>> THEN acc
    ELSE ODP_unique_entries(Tail(entries),
            IF \E a \in Range(acc) : a[2] = Head(entries)[2]
            THEN acc ELSE Append(acc, Head(entries)))

\* all_entries made unique, then sorted by start time.
ODP_merged_entries(existing, entries) ==
    SortedByPairTime(ODP_unique_entries(existing \o entries, <<>>))

\* The template of a new daily note up to and with "# Meetings\n\n".
ODP_NewDailyContent ==
    <<Text(10), Text(11), Text(12), Text(13), Text(10), Header, Blank>>

\* Where group 1 of the section pattern begins in a document whose header
\* is on line h: "\s*\n" runs over the empty lines after the header.
ODP_group_start(content, h) ==
    IF \E j \in (h + 1)..Len(content) : ~IsBlank(content[j])
    THEN Min({j \in (h + 1)..Len(content) : ~IsBlank(content[j])})
    ELSE Len(content)

\* One past the last line of group 1: the run of "- [[...]]" lines.
ODP_group_end(content, j) ==
    IF \E e \in j..Len(content) : ~IsLinkItem(content[e])
    THEN Min({e \in j..Len(content) : ~IsLinkItem(content[e])})
    ELSE Len(content) + 1

\* create_daily_note(date_str, meeting_entries): the daily note it leaves.
create_daily_note(d, v, entries) ==
    IF d = NoDoc
    THEN ODP_NewDailyContent \o LinksOf(entries) \o <<Blank>>
    ELSE LET h == start_idx(d)
         IN  IF h # 0 /\ h < Len(d)
             THEN LET j == ODP_group_start(d, h)
                      e == ODP_group_end(d, j)
                      existing == [i \in 1..(e - j) |->
                                     <<get_meeting_start_time(v, StemOf(d[j + i - 1])),
                                       StemOf(d[j + i - 1])>>]
                  IN  SubSeq(d, 1, j - 1)
                      \o LinksOf(ODP_merged_entries(existing, entries))
                      \o (IF e > Len(d) THEN <<Blank>> ELSE SubSeq(d, e, Len(d)))
             ELSE d \o <<Header, Blank>>
                    \o LinksOf(SortedByPairTime(entries)) \o <<Blank>>

(* ------------------------- the attendee resolvers ---------------------- *)
\* The strings of the model and the string functions the resolvers use on
\* them, as tables.
Lower(s) ==
    CASE s = "Bob Lee" -> "bob lee"
      [] s = "BOB LEE" -> "bob lee"
      [] s = " Bob Lee " -> " bob lee "
      [] s = "Ann" -> "ann"
      [] s = "Zed Q" -> "zed q"
      [] s = "Gemini Recording" -> "gemini recording"
      [] s = "Recap Slides" -> "recap slides"
      [] s = "Q3 Slides Deck" -> "q3 slides deck"
      [] s = "Meeting Minutes" -> "meeting minutes"
      [] s = "Team Notes" -> "team notes"
      [] s = "Gemini Notes" -> "gemini notes"
      [] s = "Call Transcript" -> "call transcript"
      [] s = "Budget" -> "budget"
      [] OTHER -> s

Strip(s) ==
    CASE s = " Bob Lee " -> "Bob Lee"
      [] s = "  " -> ""
      [] OTHER -> s

\* email.split('@')[0]
LocalPart(email) ==
    CASE email = "bob@corp.com" -> "bob"
      [] email = "zed@corp.com" -> "zed"
      [] email = "@corp.com" -> ""
      [] OTHER -> email

Put(m, k, v) == [x \in DOMAIN m \cup {k} |-> IF x = k THEN v ELSE m[x]]

\* _load_people_map over the person files in the order glob yields them: a
\* file's declared email, then its lower-cased name, later entries
\* replacing earlier ones.
RECURSIVE ODP_load_people_map(_)
ODP_load_people_map(files) ==
    IF files = <<>> THEN <<>>
    ELSE LET f  == files[Len(files)]
             m0 == ODP_load_people_map(SubSeq(files, 1, Len(files) - 1))
             m1 == IF f.email # "" THEN Put(m0, f.email, f.stem) ELSE m0
         IN  Put(m1, Lower(f.stem), f.stem)

\* The name the directory lookup of _match_attendee yields, "" when it
\* yields none (no email, time-out, exit status, unparseable output, empty
\* list, no name, a name of spaces).
ODP_full_name(email, gog) ==
    IF email # "" /\ gog.kind = "name" THEN Strip(gog.name) ELSE ""

\* A resolver that prefers the display name to the directory's name.
ODP_match_attendee_DisplayFirst(attendee, people_map, gog) ==
    LET email == attendee.email
        display_name == attendee.displayName
        full_name == ODP_full_name(email, gog)
    IN  IF email \in DOMAIN people_map
        THEN [name |-> people_map[email], linked |-> TRUE]
        ELSE IF display_name # "" /\ Lower(display_name) \in DOMAIN people_map
        THEN [name |-> people_map[Lower(display_name)], linked |-> TRUE]
        ELSE IF display_name # ""
        THEN [name |-> display_name, linked |-> FALSE]
        ELSE IF full_name # "" /\ Lower(full_name) \in DOMAIN people_map
        THEN [name |-> people_map[Lower(full_name)], linked |-> TRUE]
        ELSE IF full_name # ""
        THEN [name |-> full_name, linked |-> FALSE]
        ELSE IF email # ""
        THEN [name |-> LocalPart(email), linked |-> FALSE]
        ELSE [name |-> "Unknown", linked |-> FALSE]

\* ObsidianDailyPlanner._match_attendee(attendee): (name, is_people_match)
ODP_match_attendee(attendee, people_map, gog) ==
    LET email == attendee.email
        display_name == attendee.displayName
        full_name == ODP_full_name(email, gog)
        gog_name == IF full_name # "" /\ Lower(full_name) \notin DOMAIN people_map
                    THEN full_name ELSE ""
    IN  IF email \in DOMAIN people_map
        THEN [name |-> people_map[email], linked |-> TRUE]
        ELSE IF display_name # "" /\ Lower(display_name) \in DOMAIN people_map
        THEN [name |-> people_map[Lower(display_name)], linked |-> TRUE]
        ELSE IF full_name # "" /\ Lower(full_name) \in DOMAIN people_map
        THEN [name |-> people_map[Lower(full_name)], linked |-> TRUE]
        ELSE IF gog_name # ""
        THEN [name |-> gog_name, linked |-> FALSE]
        ELSE IF display_name # ""
        THEN [name |-> display_name, linked |-> FALSE]
        ELSE IF email # ""
        THEN [name |-> LocalPart(email), linked |-> FALSE]
        ELSE [name |-> "Unknown", linked |-> FALSE]

\* The display name create_meeting_note passes to match_attendee_to_person:
\* attendee.get('displayName') or email.split('@')[0]
display_name_of(attendee) ==
    IF attendee.displayName # "" THEN attendee.displayName
    ELSE LocalPart(attendee.email)

\* match_attendee_to_person(email, display_name, vault_root): the name it
\* emits and whether it emits it inside link brackets.  grep_hit is the stem
\* of the first file grep lists, "" when grep lists none or fails; the
\* directory's name is used as returned, not stripped.
match_attendee_to_person(email, display_name, stems, grep_hit, gog) ==
    IF email # "" /\ grep_hit # ""
    THEN [name |-> grep_hit, linked |-> TRUE]
    ELSE IF display_name # "" /\ display_name \in stems
    THEN [name |-> display_name, linked |-> TRUE]
    ELSE IF email # "" /\ gog.kind = "name" /\ gog.name # ""
    THEN [name |-> gog.name, linked |-> TRUE]
    ELSE [name |-> display_name, linked |-> TRUE]

\* The exception raised inside the try block around 'gog people search' of
\* _match_attendee, "none" when the block ends normally: the run can time
\* out or find no gog, json.loads fails on empty or unparseable output, and
\* a null name has no strip().
ODP_lookup_exception(gog) ==
    CASE gog.kind = "timeout" -> "TimeoutExpired"
      [] gog.kind = "notfound" -> "FileNotFoundError"
      [] gog.kind \in {"unparseable", "nooutput"} -> "JSONDecodeError"
      [] gog.kind = "nullname" -> "AttributeError"
      [] OTHER -> "none"

\* The same for match_attendee_to_person, which parses only non-empty
\* output and tests the name without calling a method on it.
lookup_exception(gog) ==
    CASE gog.kind = "timeout" -> "TimeoutExpired"
      [] gog.kind = "notfound" -> "FileNotFoundError"
      [] gog.kind = "unparseable" -> "JSONDecodeError"
      [] OTHER -> "none"

\* An except clause that names the time-out only.
ODP_handlers_TimeoutOnly == {"TimeoutExpired"}

\* The except clauses of the two try blocks.
ODP_handlers == {"Exception"}
handlers == {"TimeoutExpired", "JSONDecodeError", "Exception"}

\* The exception leaves the try block: no clause names it or a base of it.
Escapes(exc, hs) == exc # "none" /\ exc \notin hs /\ "Exception" \notin hs

\* _match_attendee raises: it reaches the lookup and the exception escapes.
ODP_match_attendee_raises(attendee, people_map, gog) ==
    /\ attendee.email \notin DOMAIN people_map
    /\ ~(attendee.displayName # ""
            /\ Lower(attendee.displayName) \in DOMAIN people_map)
    /\ attendee.email # ""
    /\ Escapes(ODP_lookup_exception(gog), ODP_handlers)

\* match_attendee_to_person raises: the same for its third step.
match_attendee_to_person_raises(email, display_name, stems, grep_hit, gog) ==
    /\ ~(email # "" /\ grep_hit # "")
    /\ ~(display_name # "" /\ display_name \in stems)
    /\ email # ""
    /\ Escapes(lookup_exception(gog), handlers)

(* ----------------------- attachment classification -------------------- *)
\* The keywords a text contains ('kw' in text is case-sensitive, so the
\* texts with capitals contain none of them).
KeywordsIn(text) ==
    CASE text = "gemini recording" -> {"gemini", "recording"}
      [] text = "recap slides" -> {"recap", "slides"}
      [] text = "q3 slides deck" -> {"slides", "deck"}
      [] text = "meeting minutes" -> {"minutes"}
      [] text = "team notes" -> {"notes"}
      [] text = "gemini notes" -> {"gemini", "notes"}
      [] text = "call transcript" -> {"transcript"}
      [] OTHER -> {}

\* any of the keywords in text
ContainsAny(text, kws) == KeywordsIn(text) \cap kws # {}

DocsUrl == "https://docs.google.com/document/d/1"
DriveUrl == "https://drive.google.com/file/d/2"
GeminiUrl == "https://gemini.google.com/share/3"
ViewUrl == "https://docs.google.com/document/d/1/view"
PresentationMime == "application/vnd.google-apps.presentation"
DocumentMime == "application/vnd.google-apps.document"

\* 'docs.google.com' in url, 'gemini' in url
UrlParts(url) ==
    CASE url \in {DocsUrl, ViewUrl} -> {"docs.google.com"}
      [] url = GeminiUrl -> {"gemini"}
      [] OTHER -> {}

NoDriveFile == [kind |-> "none", name |-> "", mimeType |-> "", webViewLink |-> ""]

\* get_drive_file_info(file_id) if file_id else None; an empty file
\* record counts as none.
drive_file_of(attachment, drive) ==
    IF attachment.fileId /\ drive.kind = "ok" THEN drive ELSE NoDriveFile

\* A classifier whose Drive branch tests "recording" before "gemini".
classify_attachment_RecordingFirst(attachment, drive) ==
    LET drive_file == drive_file_of(attachment, drive)
        name == Lower(drive_file.name)
        url  == IF drive_file.webViewLink # "" THEN drive_file.webViewLink
                ELSE attachment.fileUrl
    IN  [url |-> url,
         category |->
            IF ContainsAny(name, {"recording"}) THEN "recording"
            ELSE IF ContainsAny(name, {"gemini"}) THEN "gemini"
            ELSE IF ContainsAny(name, {"minutes", "summary", "recap"}) THEN "minutes"
            ELSE IF drive_file.mimeType = PresentationMime
                    \/ ContainsAny(name, {"slides", "presentation", "deck"})
                 THEN "slides"
            ELSE IF ContainsAny(name, {"notes", "agenda", "1:1", "1-1"}) THEN "agenda"
            ELSE "other"]

\* The body of the attachment loop of create_meeting_note: the list the
\* attachment's link is appended to, and the link.
classify_attachment(attachment, drive) ==
    LET drive_file == drive_file_of(attachment, drive)
    IN  IF drive_file # NoDriveFile
        THEN LET name == Lower(drive_file.name)
                 web_view_link == IF drive_file.webViewLink # ""
                                  THEN drive_file.webViewLink
                                  ELSE attachment.fileUrl
             IN  [url |-> web_view_link,
                  category |->
                     IF ContainsAny(name, {"gemini"}) THEN "gemini"
                     ELSE IF ContainsAny(name, {"recording"}) THEN "recording"
                     ELSE IF ContainsAny(name, {"minutes", "summary", "recap"})
                          THEN "minutes"
                     ELSE IF drive_file.mimeType = PresentationMime
                             \/ ContainsAny(name, {"slides", "presentation", "deck"})
                          THEN "slides"
                     ELSE IF ContainsAny(name, {"notes", "agenda", "1:1", "1-1"})
                          THEN "agenda"
                     ELSE "other"]
        ELSE LET title == Lower(attachment.title)
                 file_url == attachment.fileUrl
             IN  [url |-> file_url,
                  category |->
                     IF ContainsAny(title, {"transcript"})
                        \/ "gemini" \in UrlParts(file_url)
                     THEN "gemini"
                     ELSE IF ContainsAny(title, {"recording"}) THEN "recording"
                     ELSE IF ContainsAny(title, {"minutes", "summary", "recap"})
                          THEN "minutes"
                     ELSE IF ContainsAny(title, {"notes", "agenda", "1:1", "1-1"})
                          THEN "agenda"
                     ELSE IF "docs.google.com" \in UrlParts(file_url) THEN "agenda"
                     ELSE "other"]

Categories == {"agenda", "minutes", "recording", "gemini", "slides", "other"}

\* The attachment fields of the frontmatter: for each list that is not
\* empty, the URLs written into its field.
attachment_fields(links) ==
    [c \in Categories |-> IF links[c] # <<>> THEN <<links[c][1]>> ELSE <<>>]

(* ------------------------- main(): exit status ------------------------- *)
\* The exception that ends main() before it returns, "none" when it
\* returns: the target date is parsed with strptime, the events source is
\* opened and parsed and its 'events' member read, all outside any try
\* block; in the loop only create_meeting_note is inside the try block, so
\* an exception of should_skip_event (an event whose 'attendees' member is
\* null) is not caught.
main_exception(argc, target_date, source, outcomes) ==
    IF argc > 3 /\ target_date = "malformed" THEN "ValueError"
    ELSE IF source = "missing" THEN "FileNotFoundError"
    ELSE IF source = "notjson" THEN "JSONDecodeError"
    ELSE IF source = "notobject" THEN "AttributeError"
    ELSE IF \E k \in 1..Len(outcomes) : outcomes[k] = "filter_raises"
    THEN "TypeError"
    ELSE "none"

\* The exit status of the process running main(): sys.exit(1) without the
\* two required arguments, the interpreter's status 1 for an uncaught
\* exception, 0 when main() returns.
main_exit_code(argc, target_date, source, outcomes) ==
    IF argc < 3 THEN 1
    ELSE IF main_exception(argc, target_date, source, outcomes) # "none" THEN 1
    ELSE 0

(* --------------------------- date formats ------------------------------ *)
\* A string is the sequence of its characters; "NUL" is the character \x00.
MOMENT_TO_STRFTIME ==
    << <<<<"Y", "Y", "Y", "Y">>, <<"%", "Y">>>>,
       <<<<"Y", "Y">>, <<"%", "y">>>>,
       <<<<"M", "M", "M", "M">>, <<"%", "B">>>>,
       <<<<"M", "M", "M">>, <<"%", "b">>>>,
       <<<<"M", "M">>, <<"%", "m">>>>,
       <<<<"M">>, <<"%", "-", "m">>>>,
       <<<<"D", "D", "D", "D">>, <<"%", "j">>>>,
       <<<<"D", "D">>, <<"%", "d">>>>,
       <<<<"D">>, <<"%", "-", "d">>>>,
       <<<<"d", "d", "d", "d">>, <<"%", "A">>>>,
       <<<<"d", "d", "d">>, <<"%", "a">>>>,
       <<<<"d", "d">>, <<"%", "a">>>>,
       <<<<"d">>, <<"%", "w">>>>,
       <<<<"H", "H">>, <<"%", "H">>>>,
       <<<<"H">>, <<"%", "-", "H">>>>,
       <<<<"h", "h">>, <<"%", "I">>>>,
       <<<<"h">>, <<"%", "-", "I">>>>,
       <<<<"m", "m">>, <<"%", "M">>>>,
       <<<<"m">>, <<"%", "-", "M">>>>,
       <<<<"s", "s">>, <<"%", "S">>>>,
       <<<<"s">>, <<"%", "-", "S">>>>,
       <<<<"A">>, <<"%", "p">>>>,
       <<<<"a">>, <<"%", "p">>>> >>

\* i + Len(pat) - 1 <= Len(str) and str has pat at position i
HasAt(str, pat, i) ==
    /\ i + Len(pat) - 1 <= Len(str)
    /\ SubSeq(str, i, i + Len(pat) - 1) = pat

\* pat in str
StrContains(str, pat) == \E i \in 1..Len(str) : HasAt(str, pat, i)

\* str.replace(pat, rep): the occurrences that do not overlap, from the left
RECURSIVE ReplaceFrom(_, _, _, _)
ReplaceFrom(str, pat, rep, i) ==
    IF i > Len(str) THEN <<>>
    ELSE IF HasAt(str, pat, i)
    THEN rep \o ReplaceFrom(str, pat, rep, i + Len(pat))
    ELSE <<str[i]>> \o ReplaceFrom(str, pat, rep, i + 1)

StrReplace(str, pat, rep) == ReplaceFrom(str, pat, rep, 1)

\* The decimal digits of the placeholder counter.
DigitChars == <<"0", "1", "2", "3", "4", "5", "6", "7", "8", "9">>
Digits(n) ==
    IF n < 10 THEN <<DigitChars[n + 1]>>
    ELSE <<DigitChars[(n \div 10) + 1], DigitChars[(n % 10) + 1]>>

\* f"\x00{placeholder_counter}\x00"
Placeholder(n) == <<"NUL">> \o Digits(n) \o <<"NUL">>

\* The tokens of the table of one length, in the table's order.
TokensOfLen(l) == SelectSeq(MOMENT_TO_STRFTIME, LAMBDA e : Len(e[1]) = l)

\* A token order that takes the shortest tokens first.
TokenOrder_ShortestFirst ==
    TokensOfLen(1) \o TokensOfLen(2) \o TokensOfLen(3) \o TokensOfLen(4)

\* sorted(MOMENT_TO_STRFTIME.keys(), key=len, reverse=True), each token
\* with its code; the sort keeps tokens of one length in table order.
TokenOrder ==
    TokensOfLen(4) \o TokensOfLen(3) \o TokensOfLen(2) \o TokensOfLen(1)

\* The first loop from the k-th token of the order on: st holds result,
\* placeholder_map (in insertion order) and placeholder_counter.
RECURSIVE TokensToPlaceholders(_, _)
TokensToPlaceholders(k, st) ==
    IF k > Len(TokenOrder) THEN st
    ELSE LET moment_token == TokenOrder[k][1]
         IN  IF StrContains(st.result, moment_token)
             THEN TokensToPlaceholders(k + 1,
                    [result |-> StrReplace(st.result, moment_token,
                                           Placeholder(st.counter)),
                     map |-> Append(st.map, <<Placeholder(st.counter),
                                              TokenOrder[k][2]>>),
                     counter |-> st.counter + 1])
             ELSE TokensToPlaceholders(k + 1, st)

\* The second loop from the k-th entry of placeholder_map on.
RECURSIVE PlaceholdersToCodes(_, _, _)
PlaceholdersToCodes(k, map, result) ==
    IF k > Len(map) THEN result
    ELSE PlaceholdersToCodes(k + 1, map,
                             StrReplace(result, map[k][1], map[k][2]))

convert_moment_to_strftime(moment_format) ==
    LET st == TokensToPlaceholders(1, [result |-> moment_format,
                                       map |-> <<>>, counter |-> 0])
    IN  PlaceholdersToCodes(1, st.map, st.result)


(* ----------------------- link items as text ---------------------------- *)
\* A link item of the list zone as the characters of line.strip().
\* f"- [[{stem}]]"
link_line(stem) == <<"-", " ", "[", "[">> \o stem \o <<"]", "]">>

\* link.strip()[4:-2]
stem_of_link(link) == SubSeq(link, 5, Len(link) - 2)

\* The characters of the model in the order of their code points.
Alphabet == <<" ", "-", "A", "B", "[", "]", "n", "x", "|">>
CodePoint(c) == CHOOSE i \in 1..Len(Alphabet) : Alphabet[i] = c

\* a < b for strings
RECURSIVE TextLess(_, _)
TextLess(a, b) ==
    IF b = <<>> THEN FALSE
    ELSE IF a = <<>> THEN TRUE
    ELSE IF Head(a) # Head(b) THEN CodePoint(Head(a)) < CodePoint(Head(b))
    ELSE TextLess(Tail(a), Tail(b))

\* a < b for (start time, link) tuples
TimedTextLess(a, b) ==
    \/ a[1] < b[1]
    \/ a[1] = b[1] /\ TextLess(a[2], b[2])

\* [link for _, link in sorted(meeting_times)]
RECURSIVE all_link_texts(_)
all_link_texts(mt) ==
    IF mt = {} THEN <<>>
    ELSE LET least == CHOOSE a \in mt : \A b \in mt \ {a} : TimedTextLess(a, b)
         IN  <<least[2]>> \o all_link_texts(mt \ {least})

\* rglob(f"{stem}.md") and get_meeting_start_time: "" when no note has the
\* stem as its name.
start_time_of_stem(v, stem) ==
    IF stem \in DOMAIN v /\ v[stem] # NoFile THEN v[stem].start ELSE 0

\* new_meeting_links as text.
RECURSIVE new_link_texts(_, _)
new_link_texts(sorted, acc) ==
    IF sorted = <<>> THEN acc
    ELSE LET link == link_line(Head(sorted)[2])
         IN  new_link_texts(Tail(sorted),
                            IF link \in Range(acc) THEN acc ELSE Append(acc, link))

\* The merged list of a section whose list zone holds the link items
\* `items`: stems sliced out of every item, one "- [[stem]]" per stem,
\* sorted by (start time, link).
merged_link_texts(items, v, pairs) ==
    LET existing_links == Range(items)
        new_links == new_link_texts(SortedByPairTime(pairs), <<>>)
        stems == {stem_of_link(l) : l \in existing_links \cup Range(new_links)}
    IN  all_link_texts({<<start_time_of_stem(v, s), link_line(s)>> : s \in stems})


(* ----------------------- meeting file names ---------------------------- *)
\* text.strip() for texts whose only whitespace is the space
RECURSIVE LStrip(_)
LStrip(text) ==
    IF text # <<>> /\ Head(text) = " " THEN LStrip(Tail(text)) ELSE text

RECURSIVE RStrip(_)
RStrip(text) ==
    IF text # <<>> /\ text[Len(text)] = " "
    THEN RStrip(SubSeq(text, 1, Len(text) - 1)) ELSE text

StripText(text) == RStrip(LStrip(text))

\* re.sub(r'[<>:"\\|?*]', '', title)
InvalidChars == {"<", ">", ":", "\"", "\\", "|", "?", "*"}
RemoveInvalid(text) == SelectSeq(text, LAMBDA c : c \notin InvalidChars)

\* re.sub(r'\s+', ' ', title)
RECURSIVE CollapseSpaces(_)
CollapseSpaces(text) ==
    IF text = <<>> THEN <<>>
    ELSE IF Head(text) = " "
    THEN <<" ">> \o CollapseSpaces(LStrip(text))
    ELSE <<Head(text)>> \o CollapseSpaces(Tail(text))

\* process_calendar.sanitize_title on the characters of a title
sanitize_title_text(title) ==
    LET spaced == StrReplace(StrReplace(StrReplace(title,
                      <<"/">>, <<" ", "-", " ">>),
                      <<":">>, <<" ", "-", " ">>),
                      <<"|">>, <<" ", "-", " ">>)
    IN  StripText(CollapseSpaces(RemoveInvalid(spaced)))

\* obsidian_date_formatter.sanitize_meeting_title
sanitize_meeting_title(title) ==
    LET dashed == StrReplace(StrReplace(StrReplace(title,
                      <<"/">>, <<"-">>), <<":">>, <<"-">>), <<"|">>, <<"-">>)
    IN  StripText(StrReplace(dashed, <<" ", " ">>, <<" ">>))

\* f"{date.strftime('%Y-%m-%d')} - {sanitized_title}.md", the date as one
\* element.
meeting_file_name(date, sanitized_title) ==
    <<date, " ", "-", " ">> \o sanitized_title \o <<".md">>

\* format_meeting_path(vault_path, date, title)['filename']
format_meeting_path_filename(date, title) ==
    meeting_file_name(date, sanitize_meeting_title(title))

\* get_meeting_file_path(event, vault_root, date_format).name
get_meeting_file_path_name(date, title) ==
    meeting_file_name(date, sanitize_title_text(title))


(* --------------------- PersonEnricher (enrich_people.py) --------------- *)
\* A frontmatter scalar as it stands in the file: absent, or a text written
\* plain or in quotes.  A Python value: None, or a text with its type.
AbsentScalar == [style |-> "absent", text |-> ""]
Plain(text) == [style |-> "plain", text |-> text]
Quoted(text) == [style |-> "quoted", text |-> text]
PyNone == [type |-> "None", text |-> ""]
PyStr(text) == [type |-> "str", text |-> text]
PyInt(text) == [type |-> "int", text |-> text]

\* Texts the YAML resolver reads as an integer when they are written plain.
ResolvesToInt(text) == text \in {"123"}

\* yaml.safe_load of one scalar (frontmatter.get gives None for a key that
\* is not there).
yaml_load(scalar) ==
    CASE scalar.style = "absent" -> PyNone
      [] scalar.style = "plain" /\ ResolvesToInt(scalar.text) -> PyInt(scalar.text)
      [] OTHER -> PyStr(scalar.text)

\* A dump that never quotes.
yaml_dump_AlwaysPlain(value) ==
    IF value = PyNone THEN AbsentScalar ELSE Plain(value.text)

\* yaml.dump of one value: a string is quoted when the plain text would be
\* read back as another type.
yaml_dump(value) ==
    CASE value = PyNone -> AbsentScalar
      [] value.type = "str" /\ ResolvesToInt(value.text) -> Quoted(value.text)
      [] OTHER -> Plain(value.text)

\* The keys of the frontmatter the enricher reads or writes, and the fields
\* it takes from the directory.
FrontmatterKeys == {"email", "title", "rhatLocation", "mail", "mobile"}
LdapFields == {"title", "rhatLocation", "mail", "mobile"}

\* A person file without frontmatter, and a directory answer that is None;
\* in an answer, "" stands for a field the directory did not give.
NoFrontmatter == [k \in FrontmatterKeys |-> [style |-> "none", text |-> ""]]
NoAnswer == [f \in LdapFields |-> ""]

\* parse_frontmatter then serialize_frontmatter of a frontmatter
parse_frontmatter(file) == [k \in FrontmatterKeys |-> yaml_load(file[k])]
serialize_frontmatter(frontmatter) ==
    [k \in FrontmatterKeys |-> yaml_dump(frontmatter[k])]

\* The fields of the directory answer that differ from the frontmatter.
changed_fields(frontmatter, ldap_data) ==
    {f \in LdapFields : ldap_data[f] # "" /\ frontmatter[f] # PyStr(ldap_data[f])}

\* enrich_person_file(file_path): the file after the call, the value
\* returned, and what it appended to updated_files, not_found and errors.
enrich_person_file(file, gog_email, ldap_data, dry_run) ==
    LET unchanged(list) ==
            [file |-> file, ret |-> FALSE, appended |-> list]
        frontmatter == parse_frontmatter(file)
        email == IF frontmatter["email"] # PyNone THEN frontmatter["email"].text
                 ELSE IF frontmatter["mail"] # PyNone THEN frontmatter["mail"].text
                 ELSE gog_email
        fields == changed_fields(frontmatter, ldap_data)
        updated == [k \in FrontmatterKeys |->
                      IF k = "email" THEN PyNone
                      ELSE IF k \in fields THEN PyStr(ldap_data[k])
                      ELSE frontmatter[k]]
    IN  IF file = NoFrontmatter THEN unchanged("errors")
        ELSE IF email = "" THEN unchanged("not_found")
        ELSE IF ldap_data = NoAnswer THEN unchanged("not_found")
        ELSE IF frontmatter["email"] = PyNone /\ fields = {} THEN unchanged("none")
        ELSE [file |-> IF dry_run THEN file ELSE serialize_frontmatter(updated),
              ret |-> TRUE, appended |-> "updated_files"]

(* ------------------------------ state --------------------------------- *)
VARIABLES
    doc,        \* the daily note's lines (NoDoc: the file does not exist)
    vault,      \* MEETINGS/: stem -> NoFile or the note's content
    prevDoc,    \* the daily note before the last call
    prevVault,  \* the note files before the last call
    env,        \* what a call is given: the event, the attendee, the stores
    call,       \* the last call: its name, what it was given and returned
    run         \* main(): the events handled so far and meeting_files

vars == <<doc, vault, prevDoc, prevVault, env, call, run>>

NoEnv == [kind |-> "none"]
NoRun == [i |-> 0, meeting_files |-> <<>>, done |-> FALSE]

NoCall == [op |-> "none", stems |-> {}, pairs |-> <<>>]

\* The lines a user may have put after the header.
BodyLines == {Blank, Text(1)} \cup {Link(s) : s \in Stems}
\* <<text before the header, text from the next header on>>: the section is
\* the whole document, or lies between other text.
DocFrames ==
    {<< <<>>, <<>> >>, << <<Text(1), Blank>>, <<Hash(1), Text(2), Blank>> >>}

\* Daily notes as a user keeps them: with a meetings section, or without.
DocsWithHeader ==
    {f[1] \o <<Header>> \o b \o f[2] :
        f \in DocFrames, b \in SeqsUpTo(BodyLines, MaxBody)}
DocsWithoutHeader ==
    {<<Text(1)>>, <<Text(1), Blank>>, <<Text(1), Blank, Blank>>,
     <<Blank>>, <<Text(1), Text(2)>>}

PairLists == SeqsUpTo(Times \X Stems, MaxPairs)

PairStems(pairs) == {p[2] : p \in Range(pairs)}

InitMerge ==
    /\ doc \in DocsWithHeader \cup DocsWithoutHeader \cup {NoDoc}
    /\ vault \in [Stems -> {NoFile} \cup [start : Times, rev : {1}]]
    /\ prevDoc = doc
    /\ prevVault = vault
    /\ env = NoEnv
    /\ call = NoCall
    /\ run = NoRun

\* update_daily_note(meeting_files, ...); the
\* call record keeps the stems it was given.
update_daily_note ==
    \E pairs \in PairLists :
        /\ doc' = WrittenDailyNote(doc, vault, pairs)
        /\ prevDoc' = doc
        /\ call' = [op |-> "update", stems |-> PairStems(pairs), pairs |-> <<>>]
        /\ UNCHANGED <<vault, prevVault, env, run>>

NextMerge == update_daily_note

\* Any sequence of merges of one daily note.
SpecMerge == InitMerge /\ [][NextMerge]_vars

\* Two calls with the same pairs and nothing in between.
first_call ==
    \E pairs \in PairLists :
        /\ call.op = "none"
        /\ doc' = WrittenDailyNote(doc, vault, pairs)
        /\ prevDoc' = doc
        /\ call' = [op |-> "first", stems |-> PairStems(pairs), pairs |-> pairs]
        /\ UNCHANGED <<vault, prevVault, env, run>>

second_call ==
    /\ call.op = "first"
    /\ doc' = WrittenDailyNote(doc, vault, call.pairs)
    /\ prevDoc' = doc
    /\ call' = [call EXCEPT !.op = "second"]
    /\ UNCHANGED <<vault, prevVault, env, run>>

NextTwice == first_call \/ second_call

SpecTwice == InitMerge /\ [][NextTwice]_vars

(* ------------------- properties of update_daily_note ------------------ *)
Updated == call.op \in {"update", "first", "second"}

\* The lines after the header line up to the next line beginning with '#'.
SectionBody(content) ==
    LET h == start_idx(content)
    IN  SubSeq(content, h + 1, end_idx(content, h) - 1)

\* The link items of the section's list: the link-shaped lines up to the
\* first line, after a link, that is neither blank nor link-shaped.
RECURSIVE ListItems(_, _)
ListItems(lines, started) ==
    IF lines = <<>> THEN <<>>
    ELSE IF IsLinkItem(Head(lines))
         THEN <<Head(lines)>> \o ListItems(Tail(lines), TRUE)
    ELSE IF started /\ ~IsBlank(Head(lines)) THEN <<>>
    ELSE ListItems(Tail(lines), started)

\* The lines of a section that are not items of its list.
RECURSIVE OtherLines(_, _, _)
OtherLines(lines, started, ended) ==
    IF lines = <<>> THEN <<>>
    ELSE LET l == Head(lines)
         IN  IF IsLinkItem(l) /\ ~ended
             THEN OtherLines(Tail(lines), TRUE, ended)
             ELSE <<l>> \o OtherLines(Tail(lines), started,
                                      ended \/ (started /\ ~IsBlank(l)))

\* Every link-shaped line of a section.
LinkLines(lines) == SelectSeq(lines, IsLinkItem)

NoStemTwice(links) ==
    \A i, j \in 1..Len(links) : StemOf(links[i]) = StemOf(links[j]) => i = j

RECURSIVE IsSubseq(_, _)
IsSubseq(a, b) ==
    IF a = <<>> THEN TRUE
    ELSE IF b = <<>> THEN FALSE
    ELSE IF Head(a) = Head(b) THEN IsSubseq(Tail(a), Tail(b))
    ELSE IsSubseq(a, Tail(b))

C2_ListSortedByNoteStart ==
    Updated =>
        LET items == ListItems(SectionBody(doc), FALSE)
        IN  \A i, j \in 1..Len(items) :
                i < j => get_meeting_start_time(vault, StemOf(items[i]))
                           <= get_meeting_start_time(vault, StemOf(items[j]))

\* C3 as stated: the second of two calls with the same pairs leaves the
\* document as the first call wrote it.
C3_SecondCallChangesNothing ==
    call.op = "second" => doc = prevDoc

\* C5: when the header is present, the lines before the header line and the
\* lines from the next line beginning with '#' on are the same lines, the
\* header line is kept, and the rewritten section ends where the old tail
\* begins.
C5_OutsideSpanUntouched ==
    (call.op = "update" /\ start_idx(prevDoc) # 0) =>
        LET h    == start_idx(prevDoc)
            e    == end_idx(prevDoc, h)
            tail == Len(prevDoc) - e + 1
        IN  /\ Len(doc) >= h + tail
            /\ SubSeq(doc, 1, h - 1) = SubSeq(prevDoc, 1, h - 1)
            /\ doc[h] = prevDoc[h]
            /\ SubSeq(doc, Len(doc) - tail + 1, Len(doc))
                 = SubSeq(prevDoc, e, Len(prevDoc))
            /\ end_idx(doc, h) = Len(doc) - tail + 1

\* A merge that changed a section lying between other text.
C5_Witness ==
    /\ call.op = "update"
    /\ start_idx(prevDoc) > 1
    /\ end_idx(prevDoc, start_idx(prevDoc)) <= Len(prevDoc)
    /\ SectionBody(doc) # SectionBody(prevDoc)

\* C6 as stated: every line of the section that is not an item of its list
\* is in the rebuilt section, in the original order.
C6_OtherLinesKept ==
    (call.op = "update" /\ start_idx(prevDoc) # 0) =>
        IsSubseq(OtherLines(SectionBody(prevDoc), FALSE, FALSE),
                 SectionBody(doc))

(* -------------------------- the event filter --------------------------- *)
FilterEvents ==
    [eventType : {"default", "workingLocation"},
     attendees : SeqsUpTo(Attendees, MaxAttendees),
     guestsCanSeeOtherGuests : Flags,
     guestsCanInviteOthers : Flags,
     summary : {1},
     start : {[kind |-> "dateTime", t |-> 1]}]

InitFilter ==
    /\ env \in [kind : {"filter"}, event : FilterEvents, user_email : UserEmails]
    /\ call = NoCall
    /\ doc = <<Header>>
    /\ vault = [s \in Stems |-> NoFile]
    /\ prevDoc = doc
    /\ prevVault = vault
    /\ run = NoRun

\* One evaluation of should_skip_event(event, user_email).
skip_event ==
    /\ call.op = "none"
    /\ call' = [op |-> "should_skip_event",
                ret |-> should_skip_event(env.event, env.user_email)]
    /\ UNCHANGED <<doc, vault, prevDoc, prevVault, env, run>>

NextFilter == skip_event

SpecFilter == InitFilter /\ [][NextFilter]_vars

\* C7: should_skip_event is true exactly when the event is a working
\* location, or an attendee with the self email declined, or there is no
\* attendee, or every attendee has the self email, or both guest flags are
\* false; so a decline of another attendee, one false flag or an absent
\* flag alone do not skip the event.
C7_SkipIffOneOfFive ==
    call.op = "should_skip_event" =>
        LET ev   == env.event
            self == env.user_email
            atts == Range(ev.attendees)
        IN  call.ret =
              (\/ ev.eventType = "workingLocation"
               \/ \E a \in atts : a.email = self /\ a.responseStatus = "declined"
               \/ Len(ev.attendees) = 0
               \/ \A a \in atts : a.email = self
               \/ /\ ev.guestsCanSeeOtherGuests = "false"
                  /\ ev.guestsCanInviteOthers = "false")

\* An event that is kept although another attendee declined and one of the
\* two flags is false.
C7_Witness ==
    /\ call.op = "should_skip_event"
    /\ call.ret = FALSE
    /\ \E a \in Range(env.event.attendees) :
          a.email # env.user_email /\ a.responseStatus = "declined"
    /\ env.event.guestsCanSeeOtherGuests = "false"
    /\ env.event.guestsCanInviteOthers = "absent"

(* --------------------------- the note writers -------------------------- *)
KeptAttendees ==
    << [email |-> "me@corp.com", self |-> TRUE, responseStatus |-> "accepted"],
       [email |-> "bob@corp.com", self |-> FALSE, responseStatus |-> "accepted"] >>
SelfDeclinedAttendees ==
    << [email |-> "me@corp.com", self |-> TRUE, responseStatus |-> "declined"],
       [email |-> "bob@corp.com", self |-> FALSE, responseStatus |-> "accepted"] >>
HardcodedDeclinedAttendees ==
    << [email |-> HardcodedEmail, self |-> TRUE, responseStatus |-> "declined"],
       [email |-> "bob@corp.com", self |-> FALSE, responseStatus |-> "accepted"] >>

StartFields ==
    {[kind |-> "dateTime", t |-> 1], [kind |-> "date", t |-> 0],
     [kind |-> "none", t |-> 0]}

WriterEvents ==
    [eventType : {"default"},
     attendees : {KeptAttendees, SelfDeclinedAttendees, <<>>},
     guestsCanSeeOtherGuests : {"absent"},
     guestsCanInviteOthers : {"absent"},
     summary : Titles,
     start : StartFields,
     attachments : {<<>>, <<[title |-> "Budget", fileUrl |-> DocsUrl,
                            fileId |-> TRUE]>>}]

Vaults == [Stems -> {NoFile} \cup [start : Times, rev : {1}]]

InitWriter ==
    /\ vault \in Vaults
    /\ prevVault = vault
    /\ env = [kind |-> "writer"]
    /\ call = NoCall
    /\ doc = NoDoc
    /\ prevDoc = doc
    /\ run = NoRun

\* One call of create_meeting_note.
call_create_meeting_note ==
    \E event \in WriterEvents, rendered \in Renderings :
        LET r == create_meeting_note(event, vault, rendered)
        IN  /\ vault' = r.vault
            /\ prevVault' = vault
            /\ call' = [op |-> "create_meeting_note", event |-> event,
                        ret |-> r.ret,
                        lookups |-> create_meeting_note_lookups(event)]
            /\ UNCHANGED <<doc, prevDoc, env, run>>

\* One call of ObsidianDailyPlanner._create_meeting_note.
call_ODP_create_meeting_note ==
    \E event \in WriterEvents, rendered \in Renderings :
        LET r == ODP_create_meeting_note(event, vault, rendered)
        IN  /\ vault' = r.vault
            /\ prevVault' = vault
            /\ call' = [op |-> "_create_meeting_note", event |-> event,
                        ret |-> r.ret]
            /\ UNCHANGED <<doc, prevDoc, env, run>>

NextWriter == call_create_meeting_note \/ call_ODP_create_meeting_note

SpecWriter == InitWriter /\ [][NextWriter]_vars

\* The stem of the path a writer computes for the event of the last call,
\* 0 when the call ends before it computes one.
ComputedStem ==
    IF call.op = "create_meeting_note"
    THEN (IF ~has_start_date(call.event) THEN 0
          ELSE sanitize_title(call.event.summary))
    ELSE (IF ODP_not_a_meeting(call.event) THEN 0
          ELSE ODP_sanitize_filename(call.event.summary))

\* C4: in both writers, when a file exists at the path computed for the
\* event, the call changes no note file and returns the note's identity
\* (the start time and path, or the wikilink); and a call never changes a
\* file that existed before it.
C4_ExistingNoteUntouched ==
    call.op \in {"create_meeting_note", "_create_meeting_note"} =>
        /\ \A s \in Stems : prevVault[s] # NoFile => vault[s] = prevVault[s]
        /\ (ComputedStem # 0 /\ prevVault[ComputedStem] # NoFile) =>
              /\ vault = prevVault
              /\ call.ret.stem = ComputedStem
              /\ call.ret.kind = (IF call.op = "create_meeting_note"
                                  THEN "pair" ELSE "wikilink")
              /\ call.op = "create_meeting_note"
                    => call.ret.start = start_dt(call.event)

\* A call for an event whose note exists with another start line than the
\* event would be rendered with.
C4_Witness ==
    /\ call.op \in {"create_meeting_note", "_create_meeting_note"}
    /\ ComputedStem # 0
    /\ prevVault[ComputedStem] # NoFile
    /\ prevVault[ComputedStem].start # start_dt(call.event)
    /\ call.ret.stem = ComputedStem

(* ------------------------------- main() -------------------------------- *)
MainEvents ==
    [eventType : {"default"},
     attendees : {KeptAttendees, SelfDeclinedAttendees, HardcodedDeclinedAttendees},
     guestsCanSeeOtherGuests : {"absent"},
     guestsCanInviteOthers : {"absent"},
     summary : {1, 2},
     start : {[kind |-> "dateTime", t |-> 1], [kind |-> "none", t |-> 0],
              [kind |-> "malformed", t |-> 0]}]

MainDocs == {NoDoc, <<Header, Blank, Link(1)>>, <<Text(1), Blank>>}

InitMain ==
    /\ env \in [kind : {"main"}, events : SeqsUpTo(MainEvents, MaxBatch)]
    /\ doc \in MainDocs
    /\ vault \in Vaults
    /\ prevDoc = doc
    /\ prevVault = vault
    /\ call = NoCall
    /\ run = NoRun

\* One iteration of the loop of main(): the filter with its default
\* user_email, then create_meeting_note inside try/except.
main_event ==
    /\ ~run.done
    /\ run.i < Len(env.events)
    /\ LET event == env.events[run.i + 1]
       IN  IF should_skip_event(event, HardcodedEmail)
           THEN /\ call' = [op |-> "main_event", event |-> event, ret |-> Skipped]
                /\ run' = [run EXCEPT !.i = @ + 1]
                /\ vault' = vault
           ELSE \E rendered \in Renderings :
                  LET r == create_meeting_note(event, vault, rendered)
                  IN  /\ vault' = r.vault
                      /\ call' = [op |-> "main_event", event |-> event,
                                  ret |-> r.ret]
                      /\ run' = [run EXCEPT
                                   !.i = @ + 1,
                                   !.meeting_files =
                                       IF r.ret.kind = "pair"
                                       THEN Append(@, <<r.ret.start, r.ret.stem>>)
                                       ELSE @]
    /\ prevVault' = vault
    /\ prevDoc' = doc
    /\ UNCHANGED <<doc, env>>

\* The end of main(): update_daily_note if any note was filed.
main_update ==
    /\ ~run.done
    /\ run.i = Len(env.events)
    /\ doc' = IF run.meeting_files # <<>>
              THEN WrittenDailyNote(doc, vault, run.meeting_files)
              ELSE doc
    /\ prevDoc' = doc
    /\ prevVault' = vault
    /\ call' = [op |-> "main_update"]
    /\ run' = [run EXCEPT !.done = TRUE]
    /\ UNCHANGED <<vault, env>>

NextMain == main_event \/ main_update

SpecMain == InitMain /\ [][NextMain]_vars

\* The attendee carrying the self flag declined.
SelfFlagDeclined(event) ==
    \E a \in Range(event.attendees) : a.self /\ a.responseStatus = "declined"

\* C8 as stated: for an event whose self-flagged attendee declined, main()
\* creates no note and files no pair, whatever that attendee's email is; and
\* when every event of the batch is such an event the daily note is not
\* written.
C8_SelfDeclinedNeverFiled ==
    /\ (call.op = "main_event" /\ SelfFlagDeclined(call.event)) =>
          /\ call.ret = Skipped
          /\ vault = prevVault
    /\ (run.done /\ \A e \in Range(env.events) : SelfFlagDeclined(e)) =>
          doc = prevDoc

(* ------------------------- the attendee resolvers ---------------------- *)
PersonFiles ==
    { [stem |-> "Bob Lee", email |-> "bob@corp.com"],
      [stem |-> "Bob Lee", email |-> ""],
      [stem |-> "Ann", email |-> "bob@corp.com"],
      [stem |-> "bob lee", email |-> ""] }

\* The identity store as glob lists it: files with different names.
PeopleDirs ==
    { fs \in SeqsUpTo(PersonFiles, MaxPeople) :
        \A i, j \in 1..Len(fs) : i # j => fs[i].stem # fs[j].stem }

MatchAttendees ==
    [email : {"", "bob@corp.com", "zed@corp.com", "@corp.com"},
     displayName : {"", "Bob Lee", "BOB LEE", "Zed Q"}]

\* What 'gog people search' gives.
GogOutcomes ==
    [kind : {"timeout", "notfound", "nonzero", "nooutput", "unparseable",
             "empty", "noname", "nullname"},
     name : {""}]
    \cup [kind : {"name"}, name : {"Bob Lee", " Bob Lee ", "Zed Q", "  "}]

InitMatch ==
    /\ env \in [kind : {"match"}, attendee : MatchAttendees,
                people : PeopleDirs, gog : GogOutcomes,
                grep : {"ok", "timeout"}]
    /\ call = NoCall
    /\ doc = NoDoc
    /\ prevDoc = doc
    /\ vault = [s \in Stems |-> NoFile]
    /\ prevVault = vault
    /\ run = NoRun

\* One call of _match_attendee on a planner whose people_map was loaded
\* from the store.
call_ODP_match_attendee ==
    /\ call.op = "none"
    /\ call' = [op |-> "_match_attendee",
                ret |-> ODP_match_attendee(env.attendee,
                                           ODP_load_people_map(env.people),
                                           env.gog),
                raised |-> ODP_match_attendee_raises(
                               env.attendee, ODP_load_people_map(env.people),
                               env.gog),
                grep_hit |-> ""]
    /\ UNCHANGED <<doc, vault, prevDoc, prevVault, env, run>>

\* The files grep lists for the email.
GrepHits ==
    IF env.grep = "ok"
    THEN {f.stem : f \in {g \in Range(env.people) : g.email = env.attendee.email}}
    ELSE {}

\* One call of match_attendee_to_person as create_meeting_note makes it.
call_match_attendee_to_person ==
    /\ call.op = "none"
    /\ \E grep_hit \in IF GrepHits = {} THEN {""} ELSE GrepHits :
          call' = [op |-> "match_attendee_to_person",
                   ret |-> match_attendee_to_person(
                               env.attendee.email, display_name_of(env.attendee),
                               {f.stem : f \in Range(env.people)},
                               grep_hit, env.gog),
                   raised |-> match_attendee_to_person_raises(
                               env.attendee.email, display_name_of(env.attendee),
                               {f.stem : f \in Range(env.people)},
                               grep_hit, env.gog),
                   grep_hit |-> grep_hit]
    /\ UNCHANGED <<doc, vault, prevDoc, prevVault, env, run>>

NextMatch == call_ODP_match_attendee \/ call_match_attendee_to_person

SpecMatch == InitMatch /\ [][NextMatch]_vars

\* The six steps of the cascade for the attendee, the mapping and the
\* directory answer of the state: whether step n succeeds and what it gives.
CascadeMap == ODP_load_people_map(env.people)
DirectoryName ==
    IF env.attendee.email # "" /\ env.gog.kind = "name"
    THEN Strip(env.gog.name) ELSE ""
StepSucceeds(n) ==
    CASE n = 1 -> env.attendee.email \in DOMAIN CascadeMap
      [] n = 2 -> Lower(env.attendee.displayName) \in DOMAIN CascadeMap
      [] n = 3 -> DirectoryName # ""
      [] n = 4 -> env.attendee.displayName # ""
      [] n = 5 -> env.attendee.email # ""
      [] OTHER -> TRUE
StepResult(n) ==
    CASE n = 1 -> [name |-> CascadeMap[env.attendee.email], linked |-> TRUE]
      [] n = 2 -> [name |-> CascadeMap[Lower(env.attendee.displayName)],
                   linked |-> TRUE]
      [] n = 3 -> IF Lower(DirectoryName) \in DOMAIN CascadeMap
                  THEN [name |-> CascadeMap[Lower(DirectoryName)], linked |-> TRUE]
                  ELSE [name |-> DirectoryName, linked |-> FALSE]
      [] n = 4 -> [name |-> env.attendee.displayName, linked |-> FALSE]
      [] n = 5 -> [name |-> LocalPart(env.attendee.email), linked |-> FALSE]
      [] OTHER -> [name |-> "Unknown", linked |-> FALSE]
FirstStep == Min({n \in 1..6 : StepSucceeds(n)})

\* C9: _match_attendee returns what the first succeeding step of the
\* cascade gives: known email, known lower-cased display name, directory
\* name (linked when its lower-cased form is known, unlinked otherwise),
\* display name, email local part, "Unknown"; no later step overrides it.
C9_FirstSucceedingStep ==
    call.op = "_match_attendee" => call.ret = StepResult(FirstStep)

\* Steps 1 and 2 fail, the attendee has a display name, and the directory's
\* name is re-checked against the mapping and found.
C9_Witness ==
    /\ call.op = "_match_attendee"
    /\ FirstStep = 3
    /\ env.attendee.displayName # ""
    /\ call.ret.linked
    /\ call.ret.name # DirectoryName

\* The attendee was matched to a record of the identity store: by email, by
\* name, or by the directory's name being a record's name.
MatchedToStore ==
    LET stems == {f.stem : f \in Range(env.people)}
    IN  \/ call.ret.name \in stems
        \/ \E f \in Range(env.people) :
              f.email # "" /\ f.email = env.attendee.email

\* C10 as stated: match_attendee_to_person emits link brackets only for an
\* attendee matched to a record of the identity store; a directory-only
\* name, a literal display name and an email local part are emitted
\* without brackets.
C10_LinkOnlyForStoreMatch ==
    call.op = "match_attendee_to_person" =>
        (call.ret.linked => MatchedToStore)

\* The outcomes of the directory lookup that give no name.
LookupFailures ==
    {"timeout", "notfound", "nonzero", "nooutput", "unparseable", "empty",
     "noname", "nullname"}

\* The first succeeding step of the cascade without its lookup step.
FirstStepWithoutLookup == Min({n \in {1, 2, 4, 5, 6} : StepSucceeds(n)})

\* C11: neither resolver raises, whatever the directory lookup does; and
\* when the lookup times out, exits non-zero, gives unparseable output, an
\* empty list or a result without a name, the resolver returns what the
\* other steps of its cascade give.
C11_LookupFailureIsNoResult ==
    /\ call.op \in {"_match_attendee", "match_attendee_to_person"}
          => ~call.raised
    /\ (call.op = "_match_attendee" /\ env.gog.kind \in LookupFailures)
          => call.ret = StepResult(FirstStepWithoutLookup)
    /\ (call.op = "match_attendee_to_person" /\ env.gog.kind \in LookupFailures)
          => call.ret.name = (IF env.attendee.email # "" /\ call.grep_hit # ""
                              THEN call.grep_hit
                              ELSE display_name_of(env.attendee))

\* A call that reached the lookup, whose try block raised, and that
\* returned the display name.
C11_Witness ==
    /\ call.op \in {"_match_attendee", "match_attendee_to_person"}
    /\ env.gog.kind \in {"timeout", "unparseable"}
    /\ env.attendee.email = "zed@corp.com"
    /\ env.attendee.displayName = "Zed Q"
    /\ ~call.raised
    /\ call.ret.name = "Zed Q"

\* C12 as stated: the name a resolver returns is never empty, and an
\* attendee with neither an email nor a display name gets the placeholder.
C12_NameNeverEmpty ==
    call.op \in {"_match_attendee", "match_attendee_to_person"} =>
        /\ call.ret.name # ""
        /\ (env.attendee.email = "" /\ env.attendee.displayName = "")
              => call.ret.name = "Unknown"

(* ----------------------- attachment classification -------------------- *)
AttachmentInputs ==
    [title : {"Gemini Notes", "Meeting Minutes", "Q3 Slides Deck",
              "Call Transcript", "Budget"},
     fileUrl : {DocsUrl, DriveUrl, GeminiUrl},
     fileId : BOOLEAN]

\* What 'gog drive get' gives for the attachment's file id.
DriveOutcomes ==
    {NoDriveFile}
    \cup [kind : {"ok"},
          name : {"Gemini Recording", "Recap Slides", "Team Notes", "Budget"},
          mimeType : {PresentationMime, DocumentMime},
          webViewLink : {"", ViewUrl}]

InitAttach ==
    /\ env = [kind |-> "attach"]
    /\ run = [i |-> 0, meeting_files |-> <<>>, done |-> FALSE,
              links |-> [c \in Categories |-> <<>>]]
    /\ call = NoCall
    /\ doc = NoDoc
    /\ prevDoc = doc
    /\ vault = [s \in Stems |-> NoFile]
    /\ prevVault = vault

\* One iteration of the attachment loop.
attachment_step ==
    /\ ~run.done
    /\ run.i < MaxAttachments
    /\ \E attachment \in AttachmentInputs, drive \in DriveOutcomes :
          /\ (~attachment.fileId => drive = NoDriveFile)
          /\ LET r == classify_attachment(attachment, drive)
             IN  /\ run' = [run EXCEPT !.i = @ + 1,
                                       !.links[r.category] = Append(@, r.url)]
                 /\ call' = [op |-> "attachment", attachment |-> attachment,
                             drive |-> drive, category |-> r.category,
                             url |-> r.url]
    /\ UNCHANGED <<doc, vault, prevDoc, prevVault, env>>

\* The frontmatter lines for the attachments.
frontmatter_step ==
    /\ ~run.done
    /\ run' = [run EXCEPT !.done = TRUE]
    /\ call' = [op |-> "frontmatter", fields |-> attachment_fields(run.links)]
    /\ UNCHANGED <<doc, vault, prevDoc, prevVault, env>>

NextAttach == attachment_step \/ frontmatter_step

SpecAttach == InitAttach /\ [][NextAttach]_vars

\* The keyword rules in the stated order: which of them a lower-cased text
\* and a content type match, and the category of each.
RuleMatches(n, text, mime) ==
    CASE n = 1 -> ContainsAny(text, {"gemini"})
      [] n = 2 -> ContainsAny(text, {"recording"})
      [] n = 3 -> ContainsAny(text, {"minutes", "summary", "recap"})
      [] n = 4 -> mime = PresentationMime
                  \/ ContainsAny(text, {"slides", "presentation", "deck"})
      [] OTHER -> ContainsAny(text, {"notes", "agenda", "1:1", "1-1"})
RuleCategory(n) ==
    CASE n = 1 -> "gemini" [] n = 2 -> "recording" [] n = 3 -> "minutes"
      [] n = 4 -> "slides" [] OTHER -> "agenda"
MatchingRules(text, mime) == {n \in 1..5 : RuleMatches(n, text, mime)}

\* The metadata lookup of the last attachment succeeded.
LookupSucceeded ==
    call.op = "attachment" /\ call.attachment.fileId /\ call.drive.kind = "ok"

\* C13: when the metadata lookup succeeds, the attachment's category is
\* that of the first rule, in the stated order, that its lower-cased name
\* (or, for rule 4, its content type) matches.
C13_FirstMatchingRule ==
    LET rules == MatchingRules(Lower(call.drive.name), call.drive.mimeType)
    IN  (LookupSucceeded /\ rules # {}) => call.category = RuleCategory(Min(rules))

\* A looked-up name that matches two rules and gets the earlier one's
\* category.
C13_Witness ==
    /\ LookupSucceeded
    /\ call.drive.name = "Recap Slides"
    /\ call.drive.mimeType = PresentationMime
    /\ call.category = "minutes"

\* C14 as stated: without a metadata lookup result, a title that matches a
\* rule gets the category the rules give it, as if it were the looked-up
\* name ("Gemini ..." gemini, "Meeting Minutes" minutes, "Q3 Slides Deck"
\* slides).
C14_TitleClassifiedLikeName ==
    LET rules == IF call.op = "attachment"
                 THEN MatchingRules(Lower(call.attachment.title), "")
                 ELSE {}
    IN  (call.op = "attachment" /\ ~LookupSucceeded /\ rules # {})
            => call.category = RuleCategory(Min(rules))

\* C15 as stated: an attachment matching no rule is agenda when its link is
\* on docs.google.com and other otherwise, with or without a lookup result.
C15_DefaultByHost ==
    LET text == IF LookupSucceeded THEN Lower(call.drive.name)
                ELSE Lower(call.attachment.title)
        mime == IF LookupSucceeded THEN call.drive.mimeType ELSE ""
    IN  (call.op = "attachment"
         /\ MatchingRules(text, mime) = {}
         /\ KeywordsIn(text) = {})
            => call.category = (IF "docs.google.com" \in UrlParts(call.url)
                                THEN "agenda" ELSE "other")

\* C16 as stated: each category's field holds every URL classified into
\* the category, in first-seen order.
C16_EveryAttachmentRecorded ==
    call.op = "frontmatter" =>
        \A c \in Categories : call.fields[c] = run.links[c]

\* The pairs main() is to collect for a list of events: one for each event
\* that its filter keeps and that has a usable start date, in batch order.
RECURSIVE FiledPairs(_)
FiledPairs(events) ==
    IF events = <<>> THEN <<>>
    ELSE LET e    == events[Len(events)]
             rest == FiledPairs(SubSeq(events, 1, Len(events) - 1))
         IN  IF ~should_skip_event(e, HardcodedEmail) /\ has_start_date(e)
             THEN Append(rest, <<start_dt(e), sanitize_title(e.summary)>>)
             ELSE rest

\* C17: in main(), an event without a usable start date (none, or
\* malformed) gives no note file and no pair; the events before and after
\* it are processed, so the pairs collected are those of exactly the kept
\* events with a usable start date, each with its note on disk; and the
\* daily note is merged with exactly these pairs.
C17_BadStartSkippedOthersFiled ==
    /\ (call.op = "main_event" /\ ~has_start_date(call.event))
          => (vault = prevVault /\ call.ret.kind # "pair")
    /\ env.kind = "main" =>
          /\ run.meeting_files = FiledPairs(SubSeq(env.events, 1, run.i))
          /\ \A k \in 1..Len(run.meeting_files) :
                vault[run.meeting_files[k][2]] # NoFile
          /\ run.done =>
                /\ run.i = Len(env.events)
                /\ doc = IF FiledPairs(env.events) # <<>>
                         THEN WrittenDailyNote(prevDoc, vault, FiledPairs(env.events))
                         ELSE prevDoc

\* A finished run over a kept event with a malformed start date followed by
\* a kept event that was filed and linked.
C17_Witness ==
    /\ env.kind = "main"
    /\ run.done
    /\ Len(env.events) = 2
    /\ env.events[1].start.kind = "malformed"
    /\ ~should_skip_event(env.events[1], HardcodedEmail)
    /\ Len(run.meeting_files) = 1
    /\ Link(run.meeting_files[1][2]) \in Range(doc)
    /\ doc # prevDoc

(* ------------------------- main(): exit status ------------------------- *)
\* len(sys.argv)
ArgCounts == {1, 2, 3, 4}

\* What happens to an event in the loop: the filter skips it, its note is
\* filed, create_meeting_note raises, or the filter itself raises.
EventOutcomes == {"skipped", "filed", "create_raises", "filter_raises"}

InitCli ==
    /\ env \in [kind : {"cli"}, argc : ArgCounts,
                target_date : {"valid", "malformed"},
                source : {"ok", "missing", "notjson", "notobject"},
                outcomes : SeqsUpTo(EventOutcomes, MaxBatch)]
    /\ call = NoCall
    /\ doc = NoDoc
    /\ prevDoc = doc
    /\ vault = [s \in Stems |-> NoFile]
    /\ prevVault = vault
    /\ run = NoRun

\* One run of main() to the end of the process.
main_exit ==
    /\ call.op = "none"
    /\ call' = [op |-> "main",
                exit |-> main_exit_code(env.argc, env.target_date,
                                        env.source, env.outcomes)]
    /\ UNCHANGED <<doc, vault, prevDoc, prevVault, env, run>>

NextCli == main_exit

SpecCli == InitCli /\ [][NextCli]_vars

\* C19 as stated: main() ends with status 1 when the vault root or the
\* events source argument is missing and with status 0 in every other
\* case, whatever the events source holds, whatever the target date
\* argument is, and whichever events fail.
C19_ExitOneOnlyWithoutArguments ==
    call.op = "main" => call.exit = (IF env.argc < 3 THEN 1 ELSE 0)

(* ------------------------ an interrupted run -------------------------- *)
\* A run of main() on a vault without meeting notes that can be
\* interrupted once, after it wrote a note and before it wrote the daily
\* note; the next run starts over on the same batch.
InitResume ==
    /\ InitMain
    /\ vault = [s \in Stems |-> NoFile]

Interrupted == "snapshot" \in DOMAIN run

\* The process is killed and main() is started again: the notes on disk
\* stay, the loop state is lost.
interrupt ==
    /\ env.kind = "main"
    /\ ~run.done
    /\ ~Interrupted
    /\ \E s \in Stems : vault[s] # NoFile
    /\ run' = [i |-> 0, meeting_files |-> <<>>, done |-> FALSE,
               snapshot |-> vault]
    /\ call' = [op |-> "interrupt"]
    /\ prevVault' = vault
    /\ prevDoc' = doc
    /\ UNCHANGED <<doc, vault, env>>

NextResume == main_event \/ main_update \/ interrupt

\* A started run goes on to its end unless it is interrupted.
SpecResume ==
    /\ InitResume
    /\ [][NextResume]_vars
    /\ WF_vars(main_event)
    /\ WF_vars(main_update)

\* The run after the interruption has ended; the daily note links the note
\* of every event main() keeps and can file; and every note that was on
\* disk at the interruption has the content it had then.
ResumedRunComplete ==
    /\ Interrupted
    /\ run.done
    /\ \A k \in 1..Len(env.events) :
          (~should_skip_event(env.events[k], HardcodedEmail)
           /\ has_start_date(env.events[k]))
              => Link(sanitize_title(env.events[k].summary)) \in Range(doc)
    /\ \A s \in Stems :
          run.snapshot[s] # NoFile => vault[s] = run.snapshot[s]

\* C18: after an interruption between the writing of a note and the
\* writing of the daily note, the following run ends, with the daily note
\* linking the note of every kept event and the notes of the interrupted
\* run unchanged.
C18_ResumedRunLinksEveryNote == Interrupted ~> ResumedRunComplete

\* The following run has ended and links a note that the interrupted run
\* created and the following run found on disk.
C18_Witness ==
    /\ Interrupted
    /\ run.done
    /\ doc # prevDoc
    /\ \E k \in 1..Len(run.meeting_files) :
          /\ run.snapshot[run.meeting_files[k][2]] # NoFile
          /\ Link(run.meeting_files[k][2]) \in Range(doc)
          /\ Link(run.meeting_files[k][2]) \notin Range(prevDoc)

(* --------------------------- date formats ------------------------------ *)
Separators == {"/", "-", " "}

\* A format of table tokens with one separator between neighbours: the
\* tokens by their place in the table, and the separators.
TokenFormats ==
    UNION { [tokens : [1..n -> 1..Len(MOMENT_TO_STRFTIME)],
             seps : [1..(n - 1) -> Separators]] : n \in 1..MaxTokens }

\* "YYYY/MM-MMMM/YYYY-MM-DD dddd"
DefaultFormat ==
    [tokens |-> <<1, 5, 3, 1, 5, 8, 10>>,
     seps |-> <<"/", "-", "/", "-", "-", " ">>]

\* The text of a format with its tokens taken from column col of the
\* table: 1 the moment tokens, 2 their codes.
RECURSIVE Written(_, _, _)
Written(f, k, col) ==
    IF k > Len(f.tokens) THEN <<>>
    ELSE MOMENT_TO_STRFTIME[f.tokens[k]][col]
         \o (IF k < Len(f.tokens) THEN <<f.seps[k]>> ELSE <<>>)
         \o Written(f, k + 1, col)

MomentText(f) == Written(f, 1, 1)
StrftimeText(f) == Written(f, 1, 2)

InitFormat ==
    /\ env \in [kind : {"format"}, format : TokenFormats \cup {DefaultFormat}]
    /\ call = NoCall
    /\ doc = NoDoc
    /\ prevDoc = doc
    /\ vault = [s \in Stems |-> NoFile]
    /\ prevVault = vault
    /\ run = NoRun

\* One call of convert_moment_to_strftime.
convert_format ==
    /\ call.op = "none"
    /\ call' = [op |-> "convert_moment_to_strftime",
                ret |-> convert_moment_to_strftime(MomentText(env.format))]
    /\ UNCHANGED <<doc, vault, prevDoc, prevVault, env, run>>

NextFormat == convert_format

SpecFormat == InitFormat /\ [][NextFormat]_vars

\* C20: a format of table tokens separated by '/', '-' or space (a single
\* token included) is converted to the tokens' codes joined by the same
\* separators, a longer token never being read as shorter ones; the default
\* format gives "%Y/%m-%B/%Y-%m-%d %A".
C20_TokensToCodes ==
    call.op = "convert_moment_to_strftime" =>
        /\ call.ret = StrftimeText(env.format)
        /\ env.format = DefaultFormat =>
              call.ret = <<"%", "Y", "/", "%", "m", "-", "%", "B", "/",
                           "%", "Y", "-", "%", "m", "-", "%", "d", " ",
                           "%", "A">>

\* The default format has been converted, its "YYYY" to "%Y" and its
\* "MMMM" to "%B".
C20_Witness ==
    /\ call.op = "convert_moment_to_strftime"
    /\ env.format = DefaultFormat
    /\ SubSeq(call.ret, 1, 2) = <<"%", "Y">>
    /\ SubSeq(call.ret, 7, 8) = <<"%", "B">>
    /\ Len(call.ret) = 20

\* Formats whose tokens have a separator or a digit between them.
Literals == Separators \cup {"0", "1"}

LiteralFormats ==
    UNION { [tokens : [1..n -> 1..Len(MOMENT_TO_STRFTIME)],
             seps : [1..(n - 1) -> Literals]] : n \in 1..MaxTokens }

InitLiteral ==
    /\ env \in [kind : {"format"}, format : LiteralFormats]
    /\ call = NoCall
    /\ doc = NoDoc
    /\ prevDoc = doc
    /\ vault = [s \in Stems |-> NoFile]
    /\ prevVault = vault
    /\ run = NoRun

SpecLiteral == InitLiteral /\ [][NextFormat]_vars

\* C21 as stated: the characters between the tokens (separators, digits)
\* stay as they are and where they are, every token is replaced by its
\* code, and no placeholder character is left in the output.
C21_LiteralsKeptNoPlaceholder ==
    call.op = "convert_moment_to_strftime" =>
        /\ call.ret = StrftimeText(env.format)
        /\ "NUL" \notin Range(call.ret)

(* ------------------------- the after-list zone ------------------------- *)
\* The lines of the meetings section of a document, after the header line.
SectionOf(d) == SubSeq(d, start_idx(d) + 1, end_idx(d, start_idx(d)) - 1)

\* Line j of a section ends its list: it is not blank, not a link item,
\* and a link item comes before it.
EndsList(sec, j) ==
    /\ ~IsBlank(sec[j])
    /\ ~IsLinkItem(sec[j])
    /\ \E i \in 1..(j - 1) : IsLinkItem(sec[i])

ListEnds(sec) == {j \in 1..Len(sec) : EndsList(sec, j)}

\* C22: in a merge into a section whose list is ended by a line, that line
\* and all lines of the section after it, blank and link-shaped ones
\* included, are written in order right after the regenerated list, and
\* the regenerated list holds the links of the items before that line and
\* of the new notes only.
C22_AfterListAbsorbing ==
    (call.op = "update" /\ start_idx(prevDoc) # 0
     /\ ListEnds(SectionOf(prevDoc)) # {}) =>
        LET sec    == SectionOf(prevDoc)
            j      == Min(ListEnds(sec))
            after  == SubSeq(sec, j, Len(sec))
            newsec == SectionOf(doc)
            rest   == SubSeq(newsec, 1, Len(newsec) - Len(after))
        IN  /\ Len(newsec) >= Len(after)
            /\ SubSeq(newsec, Len(newsec) - Len(after) + 1, Len(newsec)) = after
            /\ rest # <<>>
            /\ IsLinkItem(rest[Len(rest)])
            /\ {StemOf(l) : l \in Range(SelectSeq(rest, IsLinkItem))}
                 = {StemOf(sec[i]) : i \in {k \in 1..(j - 1) : IsLinkItem(sec[k])}}
                   \cup call.stems

\* A merge into a section whose after-list zone holds a link-shaped line
\* for a note that is not in the list: the line stays after the list and
\* the list does not get the note.
C22_Witness ==
    /\ call.op = "update"
    /\ start_idx(prevDoc) # 0
    /\ SectionOf(prevDoc) = <<Link(1), Text(1), Link(2)>>
    /\ call.stems = {1}
    /\ SectionOf(doc) = <<Blank, Link(1), Text(1), Link(2)>>

\* C23 as stated: whichever branch writes the section, two links of the
\* list whose notes have the same start time, or none, are in ascending
\* order of link identity (here for pairs that carry their notes' own start
\* times).
C23_TiesByLinkIdentity ==
    (call.op = "first"
     /\ \A k \in 1..Len(call.pairs) :
           call.pairs[k][1] = get_meeting_start_time(vault, call.pairs[k][2])) =>
        LET items == ListItems(SectionBody(doc), FALSE)
        IN  \A i, j \in 1..Len(items) :
                (i < j
                 /\ get_meeting_start_time(vault, StemOf(items[i]))
                      = get_meeting_start_time(vault, StemOf(items[j])))
                    => StemOf(items[i]) < StemOf(items[j])

\* C24 as stated: when the note of the event exists, create_meeting_note
\* returns its identity without running a directory lookup or an
\* attachment metadata lookup.
C24_NoLookupForExistingNote ==
    (call.op = "create_meeting_note"
     /\ ComputedStem # 0
     /\ prevVault[ComputedStem] # NoFile) => call.lookups = {}

(* ------------- ObsidianDailyPlanner.process_calendar_events ------------ *)
\* Start fields of the events of a batch: a meeting on either day, an
\* all-day event on the target date, and an event without a start.
ODPStarts ==
    {[kind |-> "dateTime", day |-> d, t |-> DateTimeOn(d)] : d \in Days}
    \cup {[kind |-> "date", day |-> 2, t |-> 0],
          [kind |-> "none", day |-> 0, t |-> 0]}

\* Meetings the planner keeps, and one the user declined.
ODPEvents ==
    [eventType : {"default"},
     attendees : {KeptAttendees},
     guestsCanSeeOtherGuests : {"absent"},
     guestsCanInviteOthers : {"absent"},
     summary : Titles,
     start : ODPStarts]
    \cup
    [eventType : {"default"},
     attendees : {SelfDeclinedAttendees},
     guestsCanSeeOtherGuests : {"absent"},
     guestsCanInviteOthers : {"absent"},
     summary : {1},
     start : {[kind |-> "dateTime", day |-> 2, t |-> DateTimeOn(2)]}]

ODPDocs ==
    {NoDoc, <<Text(1), Blank>>, <<Text(1)>>,
     <<Header, Blank, Blank>>, <<Header, Link(2), Blank>>,
     <<Text(1), Header, Blank, Link(1), Text(2), Blank>>}

InitODP ==
    /\ doc \in ODPDocs
    /\ vault \in [Stems -> {NoFile, [start |-> DateTimeOn(2), rev |-> 1]}]
    /\ prevDoc = doc
    /\ prevVault = vault
    /\ env = [kind |-> "odp"]
    /\ call = NoCall
    /\ run = NoRun

\* One run of process_calendar_events on a batch of events.
process_calendar_events ==
    \E events \in SeqsUpTo(ODPEvents, MaxBatch) :
        LET r == ODP_collect(SortedByKey(events), vault, <<>>, Min(Renderings))
        IN  /\ vault' = r.vault
            /\ doc' = IF r.entries # <<>>
                      THEN create_daily_note(doc, r.vault, r.entries)
                      ELSE doc
            /\ prevDoc' = doc
            /\ prevVault' = vault
            /\ call' = [op |-> "process_calendar_events",
                        entries |-> r.entries]
            /\ UNCHANGED <<env, run>>

NextODP == process_calendar_events

SpecODP == InitODP /\ [][NextODP]_vars

\* The link lines of the meetings list of a note written by
\* create_daily_note: the run of link lines after the header.
ODP_list(d) ==
    LET j == ODP_group_start(d, start_idx(d))
    IN  SubSeq(d, j, ODP_group_end(d, j) - 1)

\* C25 as stated: when process_calendar_events makes create_daily_note
\* create a new daily note, the links are written in ascending order of
\* their entries' start times, entries with an empty start time before
\* every entry that has one.
C25_NewNoteAscendingStarts ==
    (call.op = "process_calendar_events" /\ prevDoc = NoDoc /\ doc # NoDoc) =>
        /\ ODP_list(doc) = LinksOf(call.entries)
        /\ \A i, j \in 1..Len(call.entries) :
              i < j => call.entries[i][1] <= call.entries[j][1]

\* C26 as stated: after process_calendar_events no wikilink occurs more
\* than once in the meetings list of the daily note, whichever branch
\* create_daily_note takes and whatever the batch.
C26_NoWikilinkTwice ==
    (call.op = "process_calendar_events" /\ call.entries # <<>>) =>
        NoStemTwice(ODP_list(doc))

(* ------------------ update_daily_note on link text --------------------- *)
\* The names of the notes of MEETINGS/.
NoteNames == {<<"A">>, <<"B">>}
\* Link items a user may have in the list: plain, with text after the
\* closing brackets, with an alias, and without closing brackets.
LinkTexts ==
    {link_line(n) : n \in NoteNames}
    \cup {link_line(<<"A">>) \o <<" ", "x">>,
          link_line(<<"A">>) \o <<"x">>,
          link_line(<<"A", "|", "n">>),
          link_line(<<"B", "|", "n">>) \o <<" ", "x">>,
          <<"-", " ", "[", "[", "A", "B", "A">>,
          <<"-", " ", "[", "[", "B">>}

InitLinkText ==
    /\ doc \in SeqsUpTo(LinkTexts, MaxPairs)
    /\ vault \in [NoteNames -> {NoFile, [start |-> 1, rev |-> 1]}]
    /\ prevDoc = doc
    /\ prevVault = vault
    /\ env = [kind |-> "link text"]
    /\ call = NoCall
    /\ run = NoRun

\* update_daily_note on a note whose meetings section is the header, an
\* empty line and the link items `doc`.
merge_link_texts ==
    \E pairs \in SeqsUpTo(Times \X NoteNames, MaxPairs) \ {<<>>} :
        /\ doc' = merged_link_texts(doc, vault, pairs)
        /\ prevDoc' = doc
        /\ call' = [op |-> "merge_link_texts", stems |-> {}, pairs |-> pairs]
        /\ UNCHANGED <<vault, prevVault, env, run>>

NextLinkText == merge_link_texts

SpecLinkText == InitLinkText /\ [][NextLinkText]_vars

\* The target written in a link item: the text after "- [[" up to the
\* closing brackets, the alias bar or the end of the line.
RECURSIVE TargetFrom(_)
TargetFrom(text) ==
    IF text = <<>> THEN <<>>
    ELSE IF Head(text) = "|" THEN <<>>
    ELSE IF Len(text) >= 2 /\ text[1] = "]" /\ text[2] = "]" THEN <<>>
    ELSE <<Head(text)>> \o TargetFrom(Tail(text))

LinkTarget(line) == TargetFrom(SubSeq(line, 5, Len(line)))

\* C27 as stated: for every line of the list zone recognized as a link
\* item, the regenerated list holds an item with exactly the target
\* written in that line.
C27_LinkTargetKept ==
    call.op = "merge_link_texts" =>
        \A i \in 1..Len(prevDoc) :
            \E j \in 1..Len(doc) : LinkTarget(doc[j]) = LinkTarget(prevDoc[i])

(* ------------------------- naming a meeting ---------------------------- *)
TitleChars == {"a", "/", ":", "|", "?", " "}
MeetingDates == {"2026-01-05", "2026-12-31"}

InitTitle ==
    /\ env \in [kind : {"title"}, date : MeetingDates,
                title : SeqsUpTo(TitleChars, MaxTitle)]
    /\ call = NoCall
    /\ doc = NoDoc
    /\ prevDoc = doc
    /\ vault = [s \in Stems |-> NoFile]
    /\ prevVault = vault
    /\ run = NoRun

\* The formatter reports the file name of a meeting and the pipeline files
\* the note of an event with that date and title.
name_meeting ==
    /\ call.op = "none"
    /\ call' = [op |-> "name_meeting",
                reported |-> format_meeting_path_filename(env.date, env.title),
                filed |-> get_meeting_file_path_name(env.date, env.title)]
    /\ UNCHANGED <<doc, vault, prevDoc, prevVault, env, run>>

NextTitle == name_meeting

SpecTitle == InitTitle /\ [][NextTitle]_vars

\* C28 as stated: for every date and title the file name format_meeting_path
\* reports equals the file name under which get_meeting_file_path files the
\* note.
C28_ReportedNameIsFiledName ==
    call.op = "name_meeting" => call.reported = call.filed

(* -------------------- main() on an empty vault ------------------------- *)
\* Kept events with every title, with and without a start, and a declined
\* one.
TitledEvents ==
    [eventType : {"default"},
     attendees : {KeptAttendees},
     guestsCanSeeOtherGuests : {"absent"},
     guestsCanInviteOthers : {"absent"},
     summary : Titles,
     start : {[kind |-> "dateTime", t |-> 1], [kind |-> "none", t |-> 0]}]
    \cup
    [eventType : {"default"},
     attendees : {HardcodedDeclinedAttendees},
     guestsCanSeeOtherGuests : {"absent"},
     guestsCanInviteOthers : {"absent"},
     summary : {1},
     start : {[kind |-> "dateTime", t |-> 1]}]

InitEmptyVault ==
    /\ env \in [kind : {"main"}, events : SeqsUpTo(TitledEvents, MaxBatch)]
    /\ doc = NoDoc
    /\ vault = [s \in Stems |-> NoFile]
    /\ prevDoc = doc
    /\ prevVault = vault
    /\ call = NoCall
    /\ run = NoRun

SpecEmptyVault == InitEmptyVault /\ [][NextMain]_vars

\* The places of the batch holding a kept event with a usable start date.
KeptWithStart ==
    {i \in 1..Len(env.events) :
        /\ ~should_skip_event(env.events[i], HardcodedEmail)
        /\ has_start_date(env.events[i])}

NoteFiles == {s \in Stems : vault[s] # NoFile}

\* C29 as stated: after a run on an empty vault there are as many note
\* files as kept events with a usable start date.
C29_OneNotePerKeptEvent ==
    run.done => Cardinality(NoteFiles) = Cardinality(KeptWithStart)

(* --------------------------- enriching a person ------------------------ *)
PersonFileStates ==
    {NoFrontmatter} \cup
    [email : {AbsentScalar, Plain("a@x.com")},
     mail : {AbsentScalar, Plain("a@x.com"), Plain("b@x.com")},
     title : {AbsentScalar, Plain("Engineer"), Quoted("Engineer")},
     rhatLocation : {AbsentScalar, Plain("RDU")},
     mobile : {AbsentScalar, Plain("123"), Quoted("123")}]

\* What ldapsearch answers: nothing, or a mail with any of the other fields.
LdapAnswers ==
    {NoAnswer} \cup
    [mail : {"a@x.com", "b@x.com"}, title : {"", "Engineer"},
     rhatLocation : {"", "RDU"}, mobile : {"", "123"}]

\* A person file, the answers of the directory (fixed for the run), and an
\* enricher with empty lists.
InitEnrich ==
    /\ doc \in PersonFileStates
    /\ env \in [kind : {"enrich"}, gog : {"", "a@x.com"}, ldap : LdapAnswers,
                dry_run : BOOLEAN]
    /\ prevDoc = doc
    /\ vault = [s \in Stems |-> NoFile]
    /\ prevVault = vault
    /\ call = NoCall
    /\ run = [rets |-> <<>>, updated_files |-> 0, not_found |-> 0, errors |-> 0]

\* One call of enrich_person_file on the file.
call_enrich_person_file ==
    /\ env.kind = "enrich"
    /\ Len(run.rets) < MaxCalls
    /\ LET r == enrich_person_file(doc, env.gog, env.ldap, env.dry_run)
       IN  /\ doc' = r.file
           /\ prevDoc' = doc
           /\ call' = [op |-> "enrich_person_file", ret |-> r.ret]
           /\ run' = [rets |-> Append(run.rets, r.ret),
                      updated_files |-> run.updated_files
                          + (IF r.appended = "updated_files" THEN 1 ELSE 0),
                      not_found |-> run.not_found
                          + (IF r.appended = "not_found" THEN 1 ELSE 0),
                      errors |-> run.errors
                          + (IF r.appended = "errors" THEN 1 ELSE 0)]
    /\ UNCHANGED <<vault, prevVault, env>>

NextEnrich == call_enrich_person_file

SpecEnrich == InitEnrich /\ [][NextEnrich]_vars

\* C30: with dry_run off and the directory answering the second call as it
\* answered the first, a call of enrich_person_file that follows a call
\* which updated the file finds no changes: it returns False, appends
\* nothing to updated_files (nor to not_found or errors) and leaves the file
\* as it is.
C30_SecondCallChangesNothing ==
    (Len(run.rets) = 2 /\ ~env.dry_run /\ run.rets[1]) =>
        /\ ~run.rets[2]
        /\ doc = prevDoc
        /\ run.updated_files = 1
        /\ run.not_found = 0
        /\ run.errors = 0

\* A second call on a file whose first call renamed email to mail and set
\* the four fields, the mobile number being a text of digits.
C30_Witness ==
    /\ Len(run.rets) = 2
    /\ ~env.dry_run
    /\ run.rets = <<TRUE, FALSE>>
    /\ doc = [email |-> AbsentScalar, mail |-> Plain("b@x.com"),
              title |-> Plain("Engineer"), rhatLocation |-> Plain("RDU"),
              mobile |-> Quoted("123")]

=============================================================================
